---- MODULE Spec2Model ----
\* Verification model of the RayNeo OpenVR driver core:
\* MyDeviceProvider (src/src/device_provider.cpp, src/src/device_provider.h)
\* and the button handling of MyHMDControllerDeviceDriver::MyRunFrame
\* (src/src/hmd_device_driver.cpp, src/src/hmd_device_driver.h).
\*
\* Three threads touch the provider: the owner (vrserver control thread, which
\* calls InitRayneo and Cleanup/StopRayneo one after the other), the polling
\* thread (RayneoEventLoop) and the frame/pose threads of the HMD device.
\* The vendor SDK is outside the repository: a context is tracked by the SDK
\* calls the driver has made on it (ctx_state), and every call is recorded in
\* sdk_log with the handle that was passed.
EXTENDS Integers, FiniteSets, Sequences, TLC

\* ---------------------------------------------------------------- bounds
\* Number of SDK contexts Rayneo_Create may hand out in one run.
MaxCtx == 2
\* Largest IMU tick value drawn for a sample.
MaxTick == 2
\* Notifications counted per button between two consume calls.
MaxUnseen == 2
\* Milliseconds by which the steady clock is seen to advance at once.
ClockStepMs == 500
\* Number of pose-update threads Activate may start in one run.
MaxPoseThreads == 2

CtxIds == 1..MaxCtx
ThreadIds == 1..MaxCtx
PoseThreadIds == 1..MaxPoseThreads
Null == 0
NoThread == 0

VARIABLES
    \* --- MyDeviceProvider session fields (device_provider.h:38-41)
    rayneo_ctx_,                   \* RAYNEO_Context handle, Null or a context id
    rayneo_started_,               \* bool
    rayneo_event_thread_,          \* std::thread: NoThread (not joinable) or a thread id
    rayneo_event_thread_running_,  \* std::atomic<bool>
    \* --- threads
    owner_pc,                      \* position of the owner thread inside StopRayneo
    loop_pc,                       \* per polling thread: position inside RayneoEventLoop
    exit_by,                       \* per polling thread: which exit of the while loop was taken
    joins,                         \* per polling thread: number of join() calls made on it
    \* --- vendor SDK side
    ctx_state,                     \* per context: none/created/started/stopped/destroyed
    sdk_log,                       \* set of SDK calls made so far
    last_call,                     \* outcome of the owner's most recent InitRayneo/StopRayneo
    \* --- orientation state (device_provider.h:44-49, 66-69)
    imu_mutex_,                    \* holder of imu_mutex_: "free" or a thread name
    imu_q_,                        \* <<w,x,y,z>> imu_q_w_ .. imu_q_z_
    recenter_q_,                   \* <<w,x,y,z>> recenter_q_w_ .. recenter_q_z_
    last_imu_tick_,                \* uint32, 0 = unset
    new_q,                         \* locals nw,nx,ny,nz of the integration step
    sample,                        \* evt.data.imu of the sample being dispatched, and its dt
    frame_pc,                      \* frame thread inside Recenter
    pose_pc,                       \* pose thread inside GetImuOrientation
    pose_q,                        \* out-parameters w,x,y,z of GetImuOrientation
    \* --- notification flags (device_provider.h:65, 71-74)
    sleeping_,                     \* std::atomic<bool>
    pending,                       \* per button: button_*_click_pending_
    ret,                           \* per button: value returned by the last Consume*Pending call
    unseen,                        \* per button: notifications posted since the last consume call
    \* --- MyHMDControllerDeviceDriver button fields (hmd_device_driver.h:92-106)
    my_input_handles_,             \* per button: TRUE when the click handle is a valid one
    frames_remaining,              \* per button: button_*_frames_remaining_
    brightness_waiting_for_double_,
    brightness_single_click_delay_,
    click_age,                     \* ms from last_brightness_click_time_ to now, saturating
    \* --- what MyRunFrame has handed to the host
    reported,                      \* per button: last UpdateBooleanComponent call
    frames_since,                  \* per button: MyRunFrame calls since its hold was started
    frame_out,                     \* what the last MyRunFrame did with the app-menu click
    \* --- MyHMDControllerDeviceDriver::GetPose (hmd_device_driver.cpp:251-306)
    pose,                          \* vr::DriverPose_t pose, as built and as last returned
    \* --- MyDeviceProvider::Init and the display lookup
    provider_pc,                   \* position of the owner thread inside Init
    init_ret,                      \* vr::EVRInitError returned by Init
    display_configuration,         \* MyHMDDisplayDriverConfiguration of the device
    platform,                      \* which #if branch of display_edid_finder.cpp was built
    os_edids,                      \* EDID records the OS enumerates at this moment
    os_monitors,                   \* desktop outputs the OS enumerates at this moment
    elapsed,                       \* ms since the deadline of the running wait loop was set
    edid_filter,                   \* arguments of the last FindDisplayByEdid call
    edidMatch,                     \* std::optional<DisplayEdidInfo> it returned
    pdc,                           \* the running call of PopulateDesktopCoordinates
    \* --- MyHMDControllerDeviceDriver activation (hmd_device_driver.h:94-95, 108)
    is_active_,                    \* std::atomic<bool>
    device_index_,                 \* std::atomic<uint32_t>
    my_pose_update_thread_,        \* std::thread: NoThread (not joinable) or a pose thread id
    pthread_pc,                    \* per pose thread: position inside MyPoseUpdateThread
    pthread_joins,                 \* per pose thread: number of join() calls made on it
    hmd_pc,                        \* position of the host's thread inside Activate/Deactivate
    hmd_last                       \* the call of the host that returned last

sessionVars == <<rayneo_ctx_, rayneo_started_, rayneo_event_thread_,
                 rayneo_event_thread_running_, owner_pc, joins,
                 ctx_state, last_call>>
loopVars == <<loop_pc, exit_by>>
imuVars == <<imu_mutex_, imu_q_, recenter_q_, last_imu_tick_, new_q, sample,
             frame_pc, pose_pc, pose_q>>
frameVars == <<my_input_handles_, frames_remaining, brightness_waiting_for_double_,
               brightness_single_click_delay_, click_age, reported, frames_since,
               frame_out>>
lifeVars == <<is_active_, device_index_, my_pose_update_thread_, pthread_pc,
              pthread_joins, hmd_pc, hmd_last>>
displayVars == <<provider_pc, init_ret, display_configuration, platform, lifeVars,
                 os_edids, os_monitors, elapsed, edid_filter, edidMatch, pdc>>
deviceVars == <<pose, displayVars>>
notifyVars == <<sleeping_, pending, ret, unseen>>
buttonVars == <<sleeping_, pending, ret, unseen, frameVars, deviceVars>>
vars == <<rayneo_ctx_, rayneo_started_, rayneo_event_thread_,
          rayneo_event_thread_running_, owner_pc, loop_pc, exit_by, joins,
          ctx_state, sdk_log, last_call,
          imu_mutex_, imu_q_, recenter_q_, last_imu_tick_, new_q, sample,
          frame_pc, pose_pc, pose_q,
          sleeping_, pending, ret, unseen,
          my_input_handles_, frames_remaining, brightness_waiting_for_double_,
          brightness_single_click_delay_, click_age, reported, frames_since,
          frame_out,
          pose, provider_pc, init_ret, display_configuration, platform,
          os_edids, os_monitors, elapsed, edid_filter, edidMatch, pdc,
          is_active_, device_index_, my_pose_update_thread_, pthread_pc,
          pthread_joins, hmd_pc, hmd_last>>

Buttons == {"system", "trigger", "grip", "appmenu"}
Identity == <<1, 0, 0, 0>>
Zero3 == <<0, 0, 0>>
\* device_provider.cpp:193: RAYNEO_Event evt{}, with the dt of line 208.
NoSample == [tick |-> 0, gyroRad |-> Zero3, gyroDps |-> Zero3, dt |-> 0]

\* hmd_device_driver.cpp:372, 377, 382, 411: frames a button is held pressed.
HoldFrames == 30
\* hmd_device_driver.cpp:399: frames the first app-menu click waits.
SingleClickDelay == 200
\* hmd_device_driver.cpp:389: wall-clock limit of a double click, in ms.
DoubleClickMs == 1000
\* What UpdateBooleanComponent was last called with: nothing yet.
NotReported == [sent |-> FALSE, pressed |-> FALSE, at |-> 0]
NoFrame == [click |-> "none", recenters |-> 0, single |-> FALSE]

\* ---------------------------------------------------------------- SDK
\* A polling thread exists from its spawn until RayneoEventLoop has returned.
Alive(t) == loop_pc[t] \notin {"unborn", "done"}
AliveThreads == {t \in ThreadIds : Alive(t)}

\* State of the context behind a handle at the time of a call.
HandleState(h) == IF h = Null THEN "null" ELSE ctx_state[h]

\* One SDK call: function, handle passed, state of that handle, calling thread,
\* and whether a polling thread existed when the call was made.
SdkCall(fn, h, by) ==
    [fn |-> fn, h |-> h, st |-> HandleState(h), by |-> by,
     polling |-> (AliveThreads # {})]

\* Smallest context id Rayneo_Create has not handed out yet.
FreshCtx == CHOOSE c \in CtxIds : ctx_state[c] = "none" /\
                \A d \in CtxIds : ctx_state[d] = "none" => c <= d
FreshThread == CHOOSE t \in ThreadIds : loop_pc[t] = "unborn" /\
                \A u \in ThreadIds : loop_pc[u] = "unborn" => t <= u

\* ---------------------------------------------------------------- Init
SessionInit ==
    /\ rayneo_ctx_ = Null
    /\ rayneo_started_ = FALSE
    /\ rayneo_event_thread_ = NoThread
    /\ rayneo_event_thread_running_ = FALSE
    /\ owner_pc = "idle"
    /\ loop_pc = [t \in ThreadIds |-> "unborn"]
    /\ exit_by = [t \in ThreadIds |-> "none"]
    /\ joins = [t \in ThreadIds |-> 0]
    /\ ctx_state = [c \in CtxIds |-> "none"]
    /\ sdk_log = {}
    /\ last_call = "none"

ImuInit ==
    /\ imu_mutex_ = "free"
    /\ imu_q_ = Identity
    /\ recenter_q_ = Identity
    /\ last_imu_tick_ = 0
    /\ new_q = Identity
    /\ sample = NoSample
    /\ frame_pc = "idle"
    /\ pose_pc = "idle"
    /\ pose_q = Identity

\* hmd_device_driver.h:92-106: the button fields of a constructed device.
FrameInit ==
    /\ frames_remaining = [b \in Buttons |-> 0]
    /\ brightness_waiting_for_double_ = FALSE
    /\ brightness_single_click_delay_ = 0
    /\ click_age = DoubleClickMs
    /\ reported = [b \in Buttons |-> NotReported]
    /\ frames_since = [b \in Buttons |-> 0]
    /\ frame_out = NoFrame

NotifyInit ==
    /\ sleeping_ = FALSE
    /\ pending = [b \in Buttons |-> FALSE]
    /\ ret = [b \in Buttons |-> FALSE]
    /\ unseen = [b \in Buttons |-> 0]

\* Before Activate every input handle is k_ulInvalidInputComponentHandle.
ButtonInit ==
    /\ NotifyInit
    /\ FrameInit
    /\ my_input_handles_ = [b \in Buttons |-> FALSE]

\* ---------------------------------------------------------------- display data
\* The builds of display_edid_finder.cpp: _WIN32, X11 (__unix__), and the
\* stub of every other platform.
Platforms == {"windows", "x11", "other"}

\* hmd_device_driver.cpp:63-66: the fallback window origin and size.
DefaultWinX == 2560
DefaultWinY == 370
DefaultWidth == 1920
DefaultHeight == 1080
DefaultConfiguration ==
    [window_x |-> DefaultWinX, window_y |-> DefaultWinY,
     window_width |-> DefaultWidth, window_height |-> DefaultHeight,
     render_width |-> DefaultWidth, render_height |-> DefaultHeight]
\* No device has been constructed.
NoConfiguration ==
    [window_x |-> 0, window_y |-> 0, window_width |-> 0, window_height |-> 0,
     render_width |-> 0, render_height |-> 0]

\* std::nullopt of std::optional<DisplayEdidInfo>.
NoEntry == [found |-> FALSE]
\* FindDisplayByEdid has not been called.
NoFilter == [product_code |-> 0, serial_number |-> 0]
\* display_edid_finder.h:9-26: a DisplayEdidInfo as default-constructed; ids are
\* kept as their segments between backslashes, the desktop fields as one record.
NoRect == [x |-> 0, y |-> 0, width |-> 0, height |-> 0]
NoInfo ==
    [device_instance_id |-> <<>>, product_code |-> 0, serial_number |-> 0,
     preferred_width |-> 0, preferred_height |-> 0, desktop |-> NoRect]
\* No call of PopulateDesktopCoordinates is running or has returned.
NoCall ==
    [pc |-> "none", caller |-> "none", elapsed |-> 0, ret |-> FALSE,
     entry |-> NoInfo, info |-> NoInfo]
\* hmd_device_driver.cpp:256: DriverPose_t pose = { 0 }, before any GetPose.
NoPose == [qRotation |-> <<0, 0, 0, 0>>, poseIsValid |-> FALSE, result |-> "none"]

\* hmd_device_driver.cpp:18-21: the activation fields of a constructed
\* device. device_index_ is not initialised by the constructor and is not
\* read before Activate has written it.
LifeInit ==
    /\ is_active_ = FALSE
    /\ device_index_ = "indeterminate"
    /\ my_pose_update_thread_ = NoThread
    /\ pthread_pc = [t \in PoseThreadIds |-> "unborn"]
    /\ pthread_joins = [t \in PoseThreadIds |-> 0]
    /\ hmd_pc = "idle"
    /\ hmd_last = "none"

\* The fields after one Activate: pose thread 1 is inside its loop.
LifeActive ==
    /\ is_active_ = TRUE
    /\ device_index_ = 0
    /\ my_pose_update_thread_ = 1
    /\ pthread_pc = [t \in PoseThreadIds |-> IF t = 1 THEN "update" ELSE "unborn"]
    /\ pthread_joins = [t \in PoseThreadIds |-> 0]
    /\ hmd_pc = "idle"
    /\ hmd_last = "activate"

\* The driver is loaded and Init has not been called.
DeviceInit ==
    /\ LifeInit
    /\ pose = NoPose
    /\ provider_pc = "loaded"
    /\ init_ret = "none"
    /\ display_configuration = NoConfiguration
    /\ platform = "windows"
    /\ os_edids = <<>>
    /\ os_monitors = <<>>
    /\ elapsed = 0
    /\ edid_filter = NoFilter
    /\ edidMatch = NoEntry
    /\ pdc = NoCall

\* Init has returned: the display was never found and the device was built
\* with the fallback configuration and added to the host.
DeviceRegistered ==
    /\ pose = NoPose
    /\ provider_pc = "running"
    /\ init_ret = "VRInitError_None"
    /\ display_configuration = DefaultConfiguration
    /\ platform = "windows"
    /\ os_edids = <<>>
    /\ os_monitors = <<>>
    /\ elapsed = 0
    /\ edid_filter = NoFilter
    /\ edidMatch = NoEntry
    /\ pdc = NoCall

\* The host has activated the registered device.
DeviceRunning == DeviceRegistered /\ LifeActive

Init == SessionInit /\ ImuInit /\ ButtonInit /\ DeviceInit

\* ---------------------------------------------------------------- owner
\* StartRayneoEventThread, device_provider.cpp:174-179, as a function of the
\* fields InitRayneo has just written. Assigning to a std::thread that is
\* still joinable calls std::terminate; the run ends there ("terminated").
StartRayneoEventThread(ctx, started) ==
    IF rayneo_event_thread_running_ \/ ctx = Null \/ ~started
    THEN UNCHANGED <<rayneo_event_thread_running_, rayneo_event_thread_,
                     loop_pc, exit_by, owner_pc>>
    ELSE IF rayneo_event_thread_ # NoThread
         THEN /\ owner_pc' = "terminated"
              /\ rayneo_event_thread_running_' = TRUE
              /\ UNCHANGED <<rayneo_event_thread_, loop_pc, exit_by>>
         ELSE /\ rayneo_event_thread_running_' = TRUE
              /\ rayneo_event_thread_' = FreshThread
              /\ loop_pc' = [loop_pc EXCEPT ![FreshThread] = "check"]
              /\ exit_by' = [exit_by EXCEPT ![FreshThread] = "none"]
              /\ UNCHANGED owner_pc

\* The early return of InitRayneo never taken (a re-entrant open).
AlreadyPresentNever == FALSE

\* An early return that is taken only while the polling flag is up, so that
\* InitRayneo opens a session anew once the loop has returned.
AlreadyPresentWhilePolling == rayneo_ctx_ # Null /\ rayneo_event_thread_running_

\* Line 138: a session context already exists.
AlreadyPresent == rayneo_ctx_ # Null

\* A failed Rayneo_Create after which a polling thread is started all the same.
CreateFailedPolling ==
    /\ rayneo_ctx_' = Null
    /\ last_call' = "init_create_failed"
    /\ rayneo_event_thread_running_' = TRUE
    /\ rayneo_event_thread_' = FreshThread
    /\ loop_pc' = [loop_pc EXCEPT ![FreshThread] = "check"]
    /\ exit_by' = [exit_by EXCEPT ![FreshThread] = "none"]
    /\ UNCHANGED <<rayneo_started_, owner_pc, ctx_state, sdk_log>>

\* Lines 142-146: Rayneo_Create failed, no context was handed out.
CreateFailed ==
    /\ rayneo_ctx_' = Null
    /\ last_call' = "init_create_failed"
    /\ UNCHANGED <<rayneo_started_, rayneo_event_thread_,
                   rayneo_event_thread_running_, owner_pc, loop_pc,
                   exit_by, ctx_state, sdk_log>>

\* The start-failure path without Rayneo_Destroy: the context stays allocated.
StartFailedNoDestroy(c) ==
    /\ rayneo_ctx_' = Null
    /\ ctx_state' = [ctx_state EXCEPT ![c] = "created"]
    /\ sdk_log' = sdk_log \cup
          {[SdkCall("Rayneo_SetTargetVidPid", c, "owner") EXCEPT !.st = "created"],
           [SdkCall("Rayneo_Start", c, "owner") EXCEPT !.st = "created"]}
    /\ last_call' = "init_start_failed"
    /\ UNCHANGED <<rayneo_started_, rayneo_event_thread_,
                   rayneo_event_thread_running_, owner_pc, loop_pc, exit_by>>

\* Lines 148-158: context c was created, Rayneo_Start failed: the context is
\* destroyed and the handle cleared.
StartFailed(c) ==
    /\ rayneo_ctx_' = Null
    /\ ctx_state' = [ctx_state EXCEPT ![c] = "destroyed"]
    /\ sdk_log' = sdk_log \cup
          {[SdkCall("Rayneo_SetTargetVidPid", c, "owner") EXCEPT !.st = "created"],
           [SdkCall("Rayneo_Start", c, "owner") EXCEPT !.st = "created"],
           [SdkCall("Rayneo_Destroy", c, "owner") EXCEPT !.st = "created"]}
    /\ last_call' = "init_start_failed"
    /\ UNCHANGED <<rayneo_started_, rayneo_event_thread_,
                   rayneo_event_thread_running_, owner_pc, loop_pc, exit_by>>

\* A start that stops short when Rayneo_EnableImu fails: no device info is
\* requested and no thread started.
StartedImuRequired(c, imuOk) ==
    /\ rayneo_ctx_' = c
    /\ rayneo_started_' = TRUE
    /\ ctx_state' = [ctx_state EXCEPT ![c] = "started"]
    /\ sdk_log' = sdk_log \cup
          ({[SdkCall("Rayneo_SetTargetVidPid", c, "owner") EXCEPT !.st = "created"],
            [SdkCall("Rayneo_Start", c, "owner") EXCEPT !.st = "created"],
            [SdkCall("Rayneo_EnableImu", c, "owner") EXCEPT !.st = "started"]}
           \cup IF imuOk
                THEN {[SdkCall("Rayneo_RequestDeviceInfo", c, "owner")
                          EXCEPT !.st = "started"]}
                ELSE {})
    /\ last_call' = IF imuOk THEN "init_started" ELSE "init_started_no_imu"
    /\ IF imuOk
       THEN StartRayneoEventThread(c, TRUE)
       ELSE UNCHANGED <<rayneo_event_thread_running_, rayneo_event_thread_,
                        loop_pc, exit_by, owner_pc>>

\* Lines 148-171: context c was created and started; Rayneo_EnableImu may
\* fail (logged only), the device info is requested, the thread is started.
Started(c, imuOk) ==
    /\ rayneo_ctx_' = c
    /\ rayneo_started_' = TRUE
    /\ ctx_state' = [ctx_state EXCEPT ![c] = "started"]
    /\ sdk_log' = sdk_log \cup
          {[SdkCall("Rayneo_SetTargetVidPid", c, "owner") EXCEPT !.st = "created"],
           [SdkCall("Rayneo_Start", c, "owner") EXCEPT !.st = "created"],
           [SdkCall("Rayneo_EnableImu", c, "owner") EXCEPT !.st = "started"],
           [SdkCall("Rayneo_RequestDeviceInfo", c, "owner") EXCEPT !.st = "started"]}
    /\ last_call' = IF imuOk THEN "init_started" ELSE "init_started_no_imu"
    /\ StartRayneoEventThread(c, TRUE)

\* InitRayneo, device_provider.cpp:135-172. The owner is the only thread that
\* writes the session fields and no polling thread exists while rayneo_ctx_ is
\* null, so the call is one step. Rayneo_Create, Rayneo_Start and
\* Rayneo_EnableImu each succeed or fail as the SDK decides. Rayneo_Create
\* takes no handle and is not entered in sdk_log.
InitRayneoCall ==
    /\ owner_pc = "idle"
    /\ IF AlreadyPresent
       THEN /\ last_call' = "init_existing"
            /\ UNCHANGED <<rayneo_ctx_, rayneo_started_, rayneo_event_thread_,
                           rayneo_event_thread_running_, owner_pc, loop_pc,
                           exit_by, ctx_state, sdk_log>>
       ELSE \E createOk, startOk, imuOk \in BOOLEAN :
            IF ~createOk
            THEN CreateFailed
            ELSE /\ \E c \in CtxIds : ctx_state[c] = "none"
                 /\ IF ~startOk
                    THEN StartFailed(FreshCtx)
                    ELSE Started(FreshCtx, imuOk)
    /\ UNCHANGED <<joins>>

\* InitRayneo as a call of its own.
InitRayneo == InitRayneoCall /\ UNCHANGED <<imuVars, buttonVars>>

\* StopRayneo, device_provider.cpp:310-328, one step per statement that
\* another thread can observe. Line 312: Rayneo_DisableImu on whatever
\* rayneo_ctx_ holds.
StopRayneo_DisableImu ==
    /\ owner_pc = "idle"
    /\ owner_pc' = "stop_flag"
    /\ sdk_log' = sdk_log \cup {SdkCall("Rayneo_DisableImu", rayneo_ctx_, "owner")}
    /\ last_call' = "stop"
    /\ UNCHANGED <<rayneo_ctx_, rayneo_started_, rayneo_event_thread_,
                   rayneo_event_thread_running_, joins, ctx_state>>
    /\ UNCHANGED <<loopVars, imuVars, buttonVars>>

\* Line 315.
StopRayneo_ClearFlag ==
    /\ owner_pc = "stop_flag"
    /\ owner_pc' = "stop_join"
    /\ rayneo_event_thread_running_' = FALSE
    /\ UNCHANGED <<rayneo_ctx_, rayneo_started_, rayneo_event_thread_, joins,
                   ctx_state, sdk_log, last_call>>
    /\ UNCHANGED <<loopVars, imuVars, buttonVars>>

\* The thread is let go without waiting for it (detach instead of join).
StopRayneo_JoinNoWait ==
    /\ owner_pc = "stop_join"
    /\ owner_pc' = "stop_release"
    /\ rayneo_event_thread_' = NoThread
    /\ UNCHANGED <<rayneo_ctx_, rayneo_started_, rayneo_event_thread_running_,
                   joins, ctx_state, sdk_log, last_call>>
    /\ UNCHANGED <<loopVars, imuVars, buttonVars>>

\* Lines 316-318: join() returns once RayneoEventLoop has returned.
StopRayneo_Join ==
    /\ owner_pc = "stop_join"
    /\ IF rayneo_event_thread_ # NoThread
       THEN /\ loop_pc[rayneo_event_thread_] = "done"
            /\ joins' = [joins EXCEPT ![rayneo_event_thread_] = @ + 1]
            /\ rayneo_event_thread_' = NoThread
       ELSE UNCHANGED <<joins, rayneo_event_thread_>>
    /\ owner_pc' = "stop_release"
    /\ UNCHANGED <<rayneo_ctx_, rayneo_started_, rayneo_event_thread_running_,
                   ctx_state, sdk_log, last_call>>
    /\ UNCHANGED <<loopVars, imuVars, buttonVars>>

\* Lines 319-327: Rayneo_Stop if started, then the handle is dropped
\* (Rayneo_Destroy is commented out at line 324).
StopRayneo_Release ==
    /\ owner_pc = "stop_release"
    /\ owner_pc' = "idle"
    /\ IF rayneo_ctx_ # Null
       THEN /\ IF rayneo_started_
               THEN /\ sdk_log' = sdk_log \cup {SdkCall("Rayneo_Stop", rayneo_ctx_, "owner")}
                    /\ ctx_state' = [ctx_state EXCEPT ![rayneo_ctx_] = "stopped"]
                    /\ rayneo_started_' = FALSE
               ELSE UNCHANGED <<sdk_log, ctx_state, rayneo_started_>>
            /\ rayneo_ctx_' = Null
       ELSE UNCHANGED <<sdk_log, ctx_state, rayneo_started_, rayneo_ctx_>>
    /\ UNCHANGED <<rayneo_event_thread_, rayneo_event_thread_running_, joins, last_call>>
    /\ UNCHANGED <<loopVars, imuVars, buttonVars>>

\* ---------------------------------------------------------------- polling thread
\* The while-loop skipping the test of the running flag.
LoopCheckIgnoreFlag(t) ==
    /\ loop_pc[t] = "check"
    /\ IF rayneo_ctx_ = Null \/ ~rayneo_started_
       THEN /\ loop_pc' = [loop_pc EXCEPT ![t] = "exit"]
            /\ exit_by' = [exit_by EXCEPT ![t] = "no_session"]
            /\ UNCHANGED sdk_log
       ELSE /\ loop_pc' = [loop_pc EXCEPT ![t] = "poll"]
            /\ sdk_log' = sdk_log \cup {SdkCall("Rayneo_PollEvent", rayneo_ctx_, "poller")}
            /\ UNCHANGED exit_by
    /\ UNCHANGED <<sessionVars, imuVars, buttonVars>>

\* RayneoEventLoop lines 191-194: the loop test, the session test and the
\* call of Rayneo_PollEvent (which waits up to 500 ms).
LoopCheck(t) ==
    /\ loop_pc[t] = "check"
    /\ IF ~rayneo_event_thread_running_
       THEN /\ loop_pc' = [loop_pc EXCEPT ![t] = "exit"]
            /\ exit_by' = [exit_by EXCEPT ![t] = "flag"]
            /\ UNCHANGED sdk_log
       ELSE IF rayneo_ctx_ = Null \/ ~rayneo_started_
            THEN /\ loop_pc' = [loop_pc EXCEPT ![t] = "exit"]
                 /\ exit_by' = [exit_by EXCEPT ![t] = "no_session"]
                 /\ UNCHANGED sdk_log
            ELSE /\ loop_pc' = [loop_pc EXCEPT ![t] = "poll"]
                 /\ sdk_log' = sdk_log \cup {SdkCall("Rayneo_PollEvent", rayneo_ctx_, "poller")}
                 /\ UNCHANGED exit_by
    /\ UNCHANGED <<sessionVars, imuVars, buttonVars>>

\* Line 195: Rayneo_PollEvent returned without an event (rc != RAYNEO_OK).
PollTimeout(t) ==
    /\ loop_pc[t] = "poll"
    /\ loop_pc' = [loop_pc EXCEPT ![t] = "check"]
    /\ UNCHANGED <<sessionVars, exit_by, sdk_log, imuVars, buttonVars>>

\* A dispatch that treats every diagnostic event as a detach.
PollDiagnosticBreaks(t) ==
    /\ loop_pc[t] = "poll"
    /\ loop_pc' = [loop_pc EXCEPT ![t] = "exit"]
    /\ exit_by' = [exit_by EXCEPT ![t] = "detach"]
    /\ UNCHANGED <<sessionVars, sdk_log, imuVars, buttonVars>>

\* Lines 199-200, 262-269, 300-302: attach, device-info and log events are
\* written to the driver log only.
PollDiagnostic(t) ==
    /\ loop_pc[t] = "poll"
    /\ \E type \in {"RAYNEO_EVENT_DEVICE_ATTACHED", "RAYNEO_EVENT_DEVICE_INFO",
                    "RAYNEO_EVENT_LOG"} :
          loop_pc' = [loop_pc EXCEPT ![t] = "check"]
    /\ UNCHANGED <<sessionVars, exit_by, sdk_log, imuVars, buttonVars>>

\* Lines 196-198: a detach event breaks out of the loop.
PollDetached(t) ==
    /\ loop_pc[t] = "poll"
    /\ loop_pc' = [loop_pc EXCEPT ![t] = "exit"]
    /\ exit_by' = [exit_by EXCEPT ![t] = "detach"]
    /\ UNCHANGED <<sessionVars, sdk_log, imuVars, buttonVars>>

\* The loop returning without clearing the running flag.
LoopExitKeepFlag(t) ==
    /\ loop_pc[t] = "exit"
    /\ loop_pc' = [loop_pc EXCEPT ![t] = "done"]
    /\ UNCHANGED rayneo_event_thread_running_
    /\ UNCHANGED <<rayneo_ctx_, rayneo_started_, rayneo_event_thread_, owner_pc,
                   joins, ctx_state, last_call, exit_by, sdk_log, imuVars, buttonVars>>

\* Line 305: the flag is cleared and RayneoEventLoop returns.
LoopExit(t) ==
    /\ loop_pc[t] = "exit"
    /\ loop_pc' = [loop_pc EXCEPT ![t] = "done"]
    /\ rayneo_event_thread_running_' = FALSE
    /\ UNCHANGED <<rayneo_ctx_, rayneo_started_, rayneo_event_thread_, owner_pc,
                   joins, ctx_state, last_call, exit_by, sdk_log, imuVars, buttonVars>>

\* ---------------------------------------------------------------- orientation
\* The fields are C++ floats. A float of the model is an integer, or one of
\* the two IEEE 754 values below that no number of the model reaches
\* (-FInf is negative infinity).
FInf == 1000001
FNaN == 1000002
IsNaN(a) == a = FNaN \/ a = -FNaN
IsInf(a) == a = FInf \/ a = -FInf

FNeg(a) == IF IsNaN(a) THEN FNaN ELSE -a

\* Float product: NaN is absorbing and infinity times zero is NaN.
FMul(a, b) ==
    CHOOSE p \in { IF IsNaN(x) \/ IsNaN(y) THEN FNaN
                   ELSE IF IsInf(x) \/ IsInf(y)
                        THEN IF x = 0 \/ y = 0 THEN FNaN
                             ELSE IF (x > 0) = (y > 0) THEN FInf ELSE -FInf
                        ELSE x * y : x \in {a}, y \in {b} } : TRUE

\* Float sum: NaN is absorbing and infinity minus infinity is NaN.
FAdd(a, b) ==
    CHOOSE s \in { IF IsNaN(x) \/ IsNaN(y) THEN FNaN
                   ELSE IF IsInf(x) /\ IsInf(y) THEN (IF x = y THEN x ELSE FNaN)
                   ELSE IF IsInf(x) THEN x
                   ELSE IF IsInf(y) THEN y
                   ELSE x + y : x \in {a}, y \in {b} } : TRUE

FSub(a, b) == FAdd(a, FNeg(b))

\* Float quotient a / b for b # 0.
FDiv(a, b) ==
    CHOOSE d \in { IF IsNaN(x) \/ IsNaN(y) THEN FNaN
                   ELSE IF IsInf(y) THEN (IF IsInf(x) THEN FNaN ELSE 0)
                   ELSE IF IsInf(x) THEN (IF (x > 0) = (y > 0) THEN FInf ELSE -FInf)
                   ELSE x \div y : x \in {a}, y \in {b} } : TRUE

\* A comparison that holds as soon as one side is NaN.
FGtUnordered(a, b) == IsNaN(a) \/ IsNaN(b) \/ a > b

\* Float comparison a > b: false as soon as one side is NaN.
FGt(a, b) == ~IsNaN(a) /\ ~IsNaN(b) /\ a > b

\* Quaternions are <<w, x, y, z>>. Hamilton product a * b, written as in
\* device_provider.cpp:251-254 and device_provider.h:86-89.
QMul(a, b) ==
    << FSub(FSub(FSub(FMul(a[1], b[1]), FMul(a[2], b[2])), FMul(a[3], b[3])), FMul(a[4], b[4])),
       FSub(FAdd(FAdd(FMul(a[1], b[2]), FMul(a[2], b[1])), FMul(a[3], b[4])), FMul(a[4], b[3])),
       FAdd(FAdd(FSub(FMul(a[1], b[3]), FMul(a[2], b[4])), FMul(a[3], b[1])), FMul(a[4], b[2])),
       FAdd(FSub(FAdd(FMul(a[1], b[4]), FMul(a[2], b[3])), FMul(a[3], b[2])), FMul(a[4], b[1])) >>

\* device_provider.h:84: the conjugate, used as the inverse of the anchor.
Conj(q) == << q[1], FNeg(q[2]), FNeg(q[3]), FNeg(q[4]) >>

Norm2(q) == FAdd(FAdd(FAdd(FMul(q[1], q[1]), FMul(q[2], q[2])), FMul(q[3], q[3])),
                 FMul(q[4], q[4]))

\* Integer square root.
ISqrt(n) == CHOOSE r \in 0..n : r*r <= n /\ n < (r+1)*(r+1)

\* std::sqrt on a float.
FSqrt(a) ==
    CHOOSE r \in { IF IsNaN(x) \/ x < 0 THEN FNaN
                   ELSE IF x = FInf THEN FInf
                   ELSE ISqrt(x) : x \in {a} } : TRUE

\* Lines 256-257: divide by the norm unless nrm > 0 is false.
Normalize(q) ==
    LET nrm == FSqrt(Norm2(q)) IN
    IF FGt(nrm, 0)
    THEN << FDiv(q[1], nrm), FDiv(q[2], nrm), FDiv(q[3], nrm), FDiv(q[4], nrm) >>
    ELSE q

\* Angular velocities drawn for a sample: none, or a turn about one body axis.
\* The unit of angular velocity is maxStep / (gyro_scale_ * 1 ms), so that
\* lines 229-234 give the step angle |w| * dt in units of maxStep.
Gyro == {Zero3, <<1, 0, 0>>, <<0, 1, 0>>, <<0, 0, 1>>}

\* Samples the vendor SDK may also hand over: a faster turn, and vectors with
\* a component that is infinite or not a number.
GyroAny == Gyro \cup {<<2, 0, 0>>, <<0, 0, 2>>, <<FInf, 0, 0>>, <<0, FNaN, 0>>,
                      <<FNaN, FInf, 0>>}

\* Lines 216-225: gyroRad, or gyroDps converted when gyroRad is all zero.
AngularVelocity(rad, dps) == IF rad = Zero3 THEN dps ELSE rad

\* A dt that is taken from the first sample on, with no previous tick.
DtPositiveFromUnset(tick) == tick > last_imu_tick_

\* Lines 209-212: dt is positive only with a previous tick and a later tick.
DtPositive(tick) == last_imu_tick_ # 0 /\ tick > last_imu_tick_

\* Lines 208-212: dt in milliseconds, zero unless DtPositive.
Dt(tick) == IF DtPositive(tick) THEN tick - last_imu_tick_ ELSE 0

\* Line 234: std::sqrt(wx*wx + wy*wy + wz*wz).
Magnitude(w) == FSqrt(FAdd(FAdd(FMul(w[1], w[1]), FMul(w[2], w[2])), FMul(w[3], w[3])))

\* Line 236: maxStep, the unit of angle.
MaxStep == 1

\* Lines 234-237: the step angle, limited to maxStep.
Clamp(angle) == IF FGt(angle, MaxStep) THEN MaxStep ELSE angle
StepAngle(w, dt) == Clamp(FMul(Magnitude(w), dt))

\* Lines 240-243: one component of the axis, w[i] * (1 / |w|). The reciprocal
\* of an infinite magnitude is zero.
AxisComponent(c, mag) == IF IsInf(mag) THEN FMul(c, 0) ELSE FDiv(c, mag)
Axis(w) == << AxisComponent(w[1], Magnitude(w)), AxisComponent(w[2], Magnitude(w)),
              AxisComponent(w[3], Magnitude(w)) >>

\* Lines 244-246: cos and sin of half the angle. Half of maxStep is taken as
\* a quarter turn, which keeps every finite orientation in the integer unit
\* quaternions {+-1, +-i, +-j, +-k}.
HalfCos(angle) == CASE angle % 4 = 0 -> 1
                    [] angle % 4 = 1 -> 0
                    [] angle % 4 = 2 -> -1
                    [] angle % 4 = 3 -> 0
HalfSin(angle) == CASE angle % 4 = 0 -> 0
                    [] angle % 4 = 1 -> 1
                    [] angle % 4 = 2 -> 0
                    [] angle % 4 = 3 -> -1

\* Lines 246-249: delta quaternion about the normalised axis.
DeltaQ(axis, angle) ==
    << HalfCos(angle), FMul(axis[1], HalfSin(angle)), FMul(axis[2], HalfSin(angle)),
       FMul(axis[3], HalfSin(angle)) >>

\* Lines 228, 238: the orientation is rewritten only when dt > 0 and angle > 0.
StepTaken(w, dt) == dt > 0 /\ FGt(StepAngle(w, dt), 0)

\* Lines 240-257: current * delta, normalised.
NewOrientation(q, w, dt) == Normalize(QMul(q, DeltaQ(Axis(w), StepAngle(w, dt))))

ImuSection == {"imu_integrate", "imu_store_w", "imu_store_x", "imu_store_y",
               "imu_store_z", "imu_unlock"}

\* Line 201-205: an IMU sample; an invalid one is dropped.
PollImuSample(t) ==
    /\ loop_pc[t] = "poll"
    /\ \E valid \in BOOLEAN :
          loop_pc' = [loop_pc EXCEPT ![t] = IF valid THEN "imu_lock" ELSE "check"]
    /\ UNCHANGED <<sessionVars, exit_by, sdk_log, imuVars, buttonVars>>

\* Line 206: std::lock_guard on imu_mutex_.
ImuLock(t) ==
    /\ loop_pc[t] = "imu_lock"
    /\ imu_mutex_ = "free"
    /\ imu_mutex_' = "poller"
    /\ loop_pc' = [loop_pc EXCEPT ![t] = "imu_integrate"]
    /\ UNCHANGED <<sessionVars, exit_by, sdk_log, buttonVars, imu_q_, recenter_q_,
                   last_imu_tick_, new_q, sample, frame_pc, pose_pc, pose_q>>

\* An integration that keeps the last tick when the sample carries tick 0.
ImuIntegrateOfKeepTick(t, G) ==
    /\ loop_pc[t] = "imu_integrate"
    /\ \E tick \in 0..MaxTick, rad \in G, dps \in G :
        LET w == AngularVelocity(rad, dps) IN
        /\ sample' = [tick |-> tick, gyroRad |-> rad, gyroDps |-> dps, dt |-> Dt(tick)]
        /\ last_imu_tick_' = IF tick = 0 THEN last_imu_tick_ ELSE tick
        /\ IF StepTaken(w, Dt(tick))
           THEN /\ new_q' = NewOrientation(imu_q_, w, Dt(tick))
                /\ loop_pc' = [loop_pc EXCEPT ![t] = "imu_store_w"]
           ELSE /\ UNCHANGED new_q
                /\ loop_pc' = [loop_pc EXCEPT ![t] = "imu_unlock"]
    /\ UNCHANGED <<sessionVars, exit_by, sdk_log, buttonVars, imu_mutex_, imu_q_,
                   recenter_q_, frame_pc, pose_pc, pose_q>>

\* Lines 207-257: dt, the tick store and the new quaternion nw..nz, for a
\* sample whose angular velocities are drawn from G.
ImuIntegrateOf(t, G) ==
    /\ loop_pc[t] = "imu_integrate"
    /\ \E tick \in 0..MaxTick, rad \in G, dps \in G :
        LET w == AngularVelocity(rad, dps) IN
        /\ sample' = [tick |-> tick, gyroRad |-> rad, gyroDps |-> dps, dt |-> Dt(tick)]
        /\ last_imu_tick_' = tick
        /\ IF StepTaken(w, Dt(tick))
           THEN /\ new_q' = NewOrientation(imu_q_, w, Dt(tick))
                /\ loop_pc' = [loop_pc EXCEPT ![t] = "imu_store_w"]
           ELSE /\ UNCHANGED new_q
                /\ loop_pc' = [loop_pc EXCEPT ![t] = "imu_unlock"]
    /\ UNCHANGED <<sessionVars, exit_by, sdk_log, buttonVars, imu_mutex_, imu_q_,
                   recenter_q_, frame_pc, pose_pc, pose_q>>

ImuIntegrate(t) == ImuIntegrateOf(t, Gyro)
ImuIntegrateAny(t) == ImuIntegrateOf(t, GyroAny)

\* The samples taken while all threads run: a turn about one axis, which is
\* integrated when time has passed since the last sample and dropped otherwise.
GyroTurn == {<<1, 0, 0>>}
ImuIntegrateTurn(t) == ImuIntegrateOf(t, GyroTurn)

\* The samples taken while the pose is watched: none, a turn about one body
\* axis, and an infinite angular velocity.
GyroPose == {Zero3, <<1, 0, 0>>, <<FInf, 0, 0>>}
ImuIntegratePose(t) == ImuIntegrateOf(t, GyroPose)

\* Line 258: the four stores imu_q_w_ = nw; ... imu_q_z_ = nz, one at a time.
ImuStore(t) ==
    /\ loop_pc[t] \in {"imu_store_w", "imu_store_x", "imu_store_y", "imu_store_z"}
    /\ LET i == CASE loop_pc[t] = "imu_store_w" -> 1
                  [] loop_pc[t] = "imu_store_x" -> 2
                  [] loop_pc[t] = "imu_store_y" -> 3
                  [] loop_pc[t] = "imu_store_z" -> 4
           nxt == CASE loop_pc[t] = "imu_store_w" -> "imu_store_x"
                    [] loop_pc[t] = "imu_store_x" -> "imu_store_y"
                    [] loop_pc[t] = "imu_store_y" -> "imu_store_z"
                    [] loop_pc[t] = "imu_store_z" -> "imu_unlock"
       IN /\ imu_q_' = [imu_q_ EXCEPT ![i] = new_q[i]]
          /\ loop_pc' = [loop_pc EXCEPT ![t] = nxt]
    /\ UNCHANGED <<sessionVars, exit_by, sdk_log, buttonVars, imu_mutex_,
                   recenter_q_, last_imu_tick_, new_q, sample, frame_pc, pose_pc, pose_q>>

\* A polling thread that goes back to its loop with imu_mutex_ still held.
ImuUnlockKeepLocked(t) ==
    /\ loop_pc[t] = "imu_unlock"
    /\ sample' = NoSample
    /\ loop_pc' = [loop_pc EXCEPT ![t] = "check"]
    /\ UNCHANGED <<sessionVars, exit_by, sdk_log, buttonVars, imu_mutex_, imu_q_,
                   recenter_q_, last_imu_tick_, new_q, frame_pc, pose_pc, pose_q>>

\* Line 261: the lock_guard goes out of scope.
ImuUnlock(t) ==
    /\ loop_pc[t] = "imu_unlock"
    /\ imu_mutex_' = "free"
    /\ sample' = NoSample
    /\ loop_pc' = [loop_pc EXCEPT ![t] = "check"]
    /\ UNCHANGED <<sessionVars, exit_by, sdk_log, buttonVars, imu_q_, recenter_q_,
                   last_imu_tick_, new_q, frame_pc, pose_pc, pose_q>>

\* Recenter entered without taking imu_mutex_.
RecenterNoLock ==
    /\ frame_pc = "idle"
    /\ frame_pc' = "recenter"
    /\ UNCHANGED <<sessionVars, loopVars, sdk_log, buttonVars, imu_mutex_, imu_q_,
                   recenter_q_, last_imu_tick_, new_q, sample, pose_pc, pose_q>>

\* Recenter, device_provider.h:116: the frame thread takes imu_mutex_.
RecenterLock ==
    /\ frame_pc = "idle"
    /\ imu_mutex_ = "free"
    /\ imu_mutex_' = "frame"
    /\ frame_pc' = "recenter"
    /\ UNCHANGED <<sessionVars, loopVars, sdk_log, buttonVars, imu_q_, recenter_q_,
                   last_imu_tick_, new_q, sample, pose_pc, pose_q>>

\* Recenter, device_provider.h:117-127: the anchor takes the current
\* orientation and the lock is released (the position fields reset here are
\* read only with use_experimental_6dof_, which is never set).
RecenterBody ==
    /\ frame_pc = "recenter"
    /\ recenter_q_' = imu_q_
    /\ imu_mutex_' = "free"
    /\ frame_pc' = "idle"
    /\ UNCHANGED <<sessionVars, loopVars, sdk_log, buttonVars, imu_q_,
                   last_imu_tick_, new_q, sample, pose_pc, pose_q>>

\* GetImuOrientation, device_provider.h:80: the pose thread takes imu_mutex_.
GetImuOrientationLock ==
    /\ pose_pc = "idle"
    /\ imu_mutex_ = "free"
    /\ imu_mutex_' = "pose"
    /\ pose_pc' = "get"
    /\ UNCHANGED <<sessionVars, loopVars, sdk_log, buttonVars, imu_q_, recenter_q_,
                   last_imu_tick_, new_q, sample, frame_pc, pose_q>>

\* GetImuOrientation, device_provider.h:81-90: conj(anchor) * current.
GetImuOrientationBody ==
    /\ pose_pc = "get"
    /\ pose_q' = QMul(Conj(recenter_q_), imu_q_)
    /\ imu_mutex_' = "free"
    /\ pose_pc' = "idle"
    /\ UNCHANGED <<sessionVars, loopVars, sdk_log, buttonVars, imu_q_, recenter_q_,
                   last_imu_tick_, new_q, sample, frame_pc>>

\* ---------------------------------------------------------------- notifications
NotifyCodes == {"RAYNEO_NOTIFY_SLEEP", "RAYNEO_NOTIFY_WAKE", "RAYNEO_NOTIFY_BUTTON",
                "RAYNEO_NOTIFY_BUTTON_VOLUME_UP", "RAYNEO_NOTIFY_BUTTON_VOLUME_DOWN",
                "RAYNEO_NOTIFY_BUTTON_BRIGHTNESS", "RAYNEO_NOTIFY_IMU_OFF",
                "RAYNEO_NOTIFY_IMU_ON", "unrecognized"}

\* ---------------------------------------------------------------- notification claims
\* A decoding that takes the volume-up button for the grip.
ButtonOfSwapped(code) ==
    CASE code = "RAYNEO_NOTIFY_BUTTON" -> "system"
      [] code = "RAYNEO_NOTIFY_BUTTON_VOLUME_UP" -> "grip"
      [] code = "RAYNEO_NOTIFY_BUTTON_VOLUME_DOWN" -> "trigger"
      [] code = "RAYNEO_NOTIFY_BUTTON_BRIGHTNESS" -> "appmenu"
      [] OTHER -> "none"

\* Lines 278-294: the button a notification code is mapped to, if any.
ButtonOf(code) ==
    CASE code = "RAYNEO_NOTIFY_BUTTON" -> "system"
      [] code = "RAYNEO_NOTIFY_BUTTON_VOLUME_UP" -> "trigger"
      [] code = "RAYNEO_NOTIFY_BUTTON_VOLUME_DOWN" -> "grip"
      [] code = "RAYNEO_NOTIFY_BUTTON_BRIGHTNESS" -> "appmenu"
      [] OTHER -> "none"

\* A dispatch that logs a button notification without setting its flag.
PollNotifyCodeLogOnly(t, code) ==
    /\ loop_pc[t] = "poll"
    /\ ButtonOf(code) # "none" => unseen[ButtonOf(code)] < MaxUnseen
    /\ sleeping_' = IF code = "RAYNEO_NOTIFY_SLEEP" THEN TRUE
                    ELSE IF code = "RAYNEO_NOTIFY_WAKE" THEN FALSE
                    ELSE sleeping_
    /\ IF ButtonOf(code) # "none"
       THEN unseen' = [unseen EXCEPT ![ButtonOf(code)] = @ + 1]
       ELSE UNCHANGED unseen
    /\ UNCHANGED pending
    /\ loop_pc' = [loop_pc EXCEPT ![t] = "check"]
    /\ UNCHANGED <<sessionVars, exit_by, sdk_log, imuVars, ret, frameVars, deviceVars>>

\* Lines 270-299: a notification event with the given code. unseen counts the
\* notifications posted for a button since the frame thread last consumed it.
PollNotifyCode(t, code) ==
    /\ loop_pc[t] = "poll"
    /\ ButtonOf(code) # "none" => unseen[ButtonOf(code)] < MaxUnseen
    /\ sleeping_' = IF code = "RAYNEO_NOTIFY_SLEEP" THEN TRUE
                    ELSE IF code = "RAYNEO_NOTIFY_WAKE" THEN FALSE
                    ELSE sleeping_
    /\ IF ButtonOf(code) # "none"
       THEN /\ pending' = [pending EXCEPT ![ButtonOf(code)] = TRUE]
            /\ unseen' = [unseen EXCEPT ![ButtonOf(code)] = @ + 1]
       ELSE UNCHANGED <<pending, unseen>>
    /\ loop_pc' = [loop_pc EXCEPT ![t] = "check"]
    /\ UNCHANGED <<sessionVars, exit_by, sdk_log, imuVars, ret, frameVars, deviceVars>>

PollNotify(t) == \E code \in NotifyCodes : PollNotifyCode(t, code)

\* A consume that reads the flag and leaves it set (load instead of exchange).
ConsumeLoadOnly(b) ==
    /\ ret' = [ret EXCEPT ![b] = pending[b]]
    /\ unseen' = [unseen EXCEPT ![b] = 0]
    /\ UNCHANGED <<pending, sleeping_, sessionVars, loopVars, sdk_log, imuVars, frameVars,
                   deviceVars>>

\* device_provider.h:108-111: flag.exchange(false), returning the old value.
Consume(b) ==
    /\ ret' = [ret EXCEPT ![b] = pending[b]]
    /\ pending' = [pending EXCEPT ![b] = FALSE]
    /\ unseen' = [unseen EXCEPT ![b] = 0]
    /\ UNCHANGED <<sleeping_, sessionVars, loopVars, sdk_log, imuVars, frameVars,
                   deviceVars>>

ConsumeButtonNotifyPending == Consume("system")
ConsumeTriggerClickPending == Consume("trigger")
ConsumeGripClickPending == Consume("grip")
ConsumeAppMenuClickPending == Consume("appmenu")

\* ---------------------------------------------------------------- frame handler
\* A report that is pressed from the second frame of a hold on only.
PressedLate(n) == n > 1

\* hmd_device_driver.cpp:419, 426, 433, 440: pressed = (frames_remaining > 0).
Pressed(n) == n > 0

\* A decrement that does not test the counter.
DecrementAlways(n) == n - 1

\* Lines 421, 428, 435, 442: if (frames_remaining > 0) frames_remaining--.
Decrement(n) == IF n > 0 THEN n - 1 ELSE n

\* A hold that is added to what is left of the running one.
StartHoldStacked(n) == n + HoldFrames

\* Lines 372, 377, 382, 411: a hold is started by assigning the hold length,
\* whatever the counter n was.
StartHold(n) == HoldFrames

\* A double click that has to follow the first click within a tenth of the limit.
IsDoubleClickShort == brightness_waiting_for_double_ /\ click_age * 10 < DoubleClickMs

\* Line 389: the click counts as the second of a double click.
IsDoubleClick == brightness_waiting_for_double_ /\ click_age < DoubleClickMs

\* A single click emitted when the countdown ends with no click open.
SingleClickDueInverted(delay, waiting) == delay = 0 /\ ~waiting

\* A countdown that ends without closing the open click.
SingleClickDueNever(delay, waiting) == FALSE

\* Line 408: the wait has run out with the first click still open.
SingleClickDue(delay, waiting) == delay = 0 /\ waiting

Min(a, b) == IF a < b THEN a ELSE b

\* MyRunFrame, hmd_device_driver.cpp:357-446, as one step of the frame thread:
\* the four consumes, the double-click decision (with Recenter, which takes
\* imu_mutex_), the deferred single click, and for every button with a valid
\* handle the report to the host followed by the decrement. frame_number_ is
\* written and never read, and is left out.
MyRunFrame ==
    LET consumed == pending
        double == consumed["appmenu"] /\ IsDoubleClick
        first == consumed["appmenu"] /\ ~IsDoubleClick
        waiting1 == IF double THEN FALSE
                    ELSE IF first THEN TRUE ELSE brightness_waiting_for_double_
        delay1 == IF double THEN 0
                  ELSE IF first THEN SingleClickDelay ELSE brightness_single_click_delay_
        delay2 == IF delay1 > 0 THEN delay1 - 1 ELSE delay1
        single == delay1 > 0 /\ SingleClickDue(delay2, waiting1)
        started == [b \in Buttons |-> IF b = "appmenu" THEN single ELSE consumed[b]]
        held == [b \in Buttons |-> IF started[b] THEN StartHold(frames_remaining[b])
                                   ELSE frames_remaining[b]]
    IN
    /\ frame_pc = "idle"
    /\ double => imu_mutex_ = "free"
    /\ ret' = consumed
    /\ pending' = [b \in Buttons |-> FALSE]
    /\ unseen' = [b \in Buttons |-> 0]
    /\ recenter_q_' = IF double THEN imu_q_ ELSE recenter_q_
    /\ click_age' = IF first THEN 0 ELSE click_age
    /\ brightness_waiting_for_double_' = IF single THEN FALSE ELSE waiting1
    /\ brightness_single_click_delay_' = delay2
    /\ frames_remaining' = [b \in Buttons |->
            IF my_input_handles_[b] THEN Decrement(held[b]) ELSE held[b]]
    /\ reported' = [b \in Buttons |->
            IF my_input_handles_[b]
            THEN [sent |-> TRUE, pressed |-> Pressed(held[b]), at |-> held[b]]
            ELSE reported[b]]
    /\ frames_since' = [b \in Buttons |->
            IF started[b] THEN 1
            ELSE IF frames_since[b] = 0 THEN 0
            ELSE Min(frames_since[b] + 1, HoldFrames + 1)]
    /\ frame_out' = [click |-> IF double THEN "double" ELSE IF first THEN "first" ELSE "none",
                     recenters |-> IF double THEN 1 ELSE 0,
                     single |-> single]
    /\ UNCHANGED <<sessionVars, loopVars, sdk_log, sleeping_, my_input_handles_,
                   imu_mutex_, imu_q_, last_imu_tick_, new_q, sample, frame_pc,
                   pose_pc, pose_q, deviceVars>>

\* std::chrono::steady_clock moves on between two frames. Only the comparison
\* with DoubleClickMs at line 389 reads the age of the last click, so the age
\* stops growing there.
ClockAdvance ==
    /\ click_age < DoubleClickMs
    /\ click_age' = Min(DoubleClickMs, click_age + ClockStepMs)
    /\ UNCHANGED <<sessionVars, loopVars, sdk_log, imuVars, sleeping_, pending, ret,
                   unseen, my_input_handles_, frames_remaining,
                   brightness_waiting_for_double_, brightness_single_click_delay_,
                   reported, frames_since, frame_out, deviceVars>>

\* ---------------------------------------------------------------- pose
\* hmd_device_driver.cpp:268: the norm below which the orientation is taken as
\* degenerate, 0.00001f. Every norm of the model is a whole number, and a
\* whole number is above 0.00001 exactly when it is above zero.
NormEpsilon == 0

\* std::isfinite.
IsFinite(a) == ~IsNaN(a) /\ ~IsInf(a)

\* A validation that normalises whatever it is handed.
PoseRotationUnchecked(q) ==
    LET nrm == FSqrt(Norm2(q)) IN
    IF nrm # 0
    THEN << FDiv(q[1], nrm), FDiv(q[2], nrm), FDiv(q[3], nrm), FDiv(q[4], nrm) >>
    ELSE q

\* hmd_device_driver.cpp:267-272: the quaternion of GetImuOrientation divided
\* by its norm, or the identity when the norm is not above NormEpsilon or is
\* not finite.
PoseRotation(q) ==
    CHOOSE r \in { IF FGt(nrm, NormEpsilon) /\ IsFinite(nrm)
                   THEN << FDiv(q[1], nrm), FDiv(q[2], nrm), FDiv(q[3], nrm),
                           FDiv(q[4], nrm) >>
                   ELSE Identity : nrm \in {FSqrt(Norm2(q))} } : TRUE

\* GetPose, hmd_device_driver.cpp:256-265: the body of GetImuOrientation
\* (device_provider.h:81-90) run by GetPose; its out-parameters are the
\* locals qw, qx, qy, qz of GetPose.
GetPoseOrientation ==
    /\ pose_pc = "get"
    /\ pose_q' = QMul(Conj(recenter_q_), imu_q_)
    /\ imu_mutex_' = "free"
    /\ pose_pc' = "pose_validate"
    /\ UNCHANGED <<sessionVars, loopVars, sdk_log, buttonVars, imu_q_,
                   recenter_q_, last_imu_tick_, new_q, sample, frame_pc>>

\* Lines 286-300: the tracking result of a pose built with the local
\* 'sleeping'. Line 289 assigns Running_OutOfRange when sleeping and line
\* 300 then assigns Running_OK in every case.
PoseResult(sleeping) == "TrackingResult_Running_OK"

\* GetPose, lines 266-305: the locals are validated and written to the pose,
\* IsSleeping() is loaded, validity and tracking result are set and the pose
\* is returned to MyPoseUpdateThread, which hands it to the host.
GetPoseReport ==
    /\ pose_pc = "pose_validate"
    /\ pose' = [qRotation |-> PoseRotation(pose_q), poseIsValid |-> ~sleeping_,
                result |-> PoseResult(sleeping_)]
    /\ pose_pc' = "idle"
    /\ UNCHANGED <<sessionVars, loopVars, sdk_log, notifyVars, frameVars, imu_mutex_,
                   imu_q_, recenter_q_, last_imu_tick_, new_q, sample, frame_pc,
                   pose_q, displayVars>>

\* The device posts a sleep or a wake notification.
PollNotifySleepWake(t) ==
    \E code \in {"RAYNEO_NOTIFY_SLEEP", "RAYNEO_NOTIFY_WAKE"} : PollNotifyCode(t, code)

\* ---------------------------------------------------------------- session specification
OwnerNext ==
    \/ InitRayneo
    \/ StopRayneo_DisableImu
    \/ StopRayneo_ClearFlag
    \/ StopRayneo_Join
    \/ StopRayneo_Release

StopRayneoNext ==
    \/ StopRayneo_ClearFlag
    \/ StopRayneo_Join
    \/ StopRayneo_Release

LoopNext ==
    \/ \E t \in ThreadIds : LoopCheck(t)
    \/ \E t \in ThreadIds : PollTimeout(t)
    \/ \E t \in ThreadIds : PollDiagnostic(t)
    \/ \E t \in ThreadIds : PollDetached(t)
    \/ \E t \in ThreadIds : LoopExit(t)

Next == OwnerNext \/ LoopNext

Spec == Init /\ [][Next]_vars

\* The scheduler runs the polling thread and lets a StopRayneo in progress
\* continue; Rayneo_PollEvent returns after its bounded wait.
LiveSpec == Spec /\ WF_vars(LoopNext) /\ WF_vars(StopRayneoNext)

\* ---------------------------------------------------------------- session claims
Spawned == {t \in ThreadIds : loop_pc[t] # "unborn"}
StartedCtxs == {c \in CtxIds : ctx_state[c] \in {"started", "stopped"}}
\* Calls that are made on a handle of the session.
StopDone == owner_pc = "idle" /\ last_call = "stop"

\* C1: at most one polling thread exists at any time; every successful start
\* has spawned exactly one thread (as many threads were spawned as contexts
\* were started); a thread leaves its loop only because the running flag was
\* cleared by a StopRayneo in progress or because it dispatched a detach event.
C1_OnePollingThread ==
    /\ Cardinality(AliveThreads) <= 1
    /\ Cardinality(Spawned) = Cardinality(StartedCtxs)
    /\ \A t \in ThreadIds :
        /\ exit_by[t] \in {"none", "flag", "detach"}
        /\ (Alive(t) /\ exit_by[t] = "flag") => owner_pc = "stop_join"
        /\ (loop_pc[t] \in {"exit", "done"}) = (exit_by[t] # "none")

\* A new thread polls while an earlier one, stopped by flag or detach, is done.
C1_Witness ==
    \E t, u \in ThreadIds :
        /\ t # u
        /\ loop_pc[t] = "poll"
        /\ loop_pc[u] = "done"
        /\ exit_by[u] = "flag"

C3_FailedInitClean ==
    last_call \in {"init_create_failed", "init_start_failed"} =>
        /\ rayneo_ctx_ = Null
        /\ ~rayneo_started_
        /\ ~rayneo_event_thread_running_
        /\ rayneo_event_thread_ = NoThread
        /\ AliveThreads = {}
        /\ \A c \in CtxIds : ctx_state[c] # "created"
        /\ Cardinality(Spawned) = Cardinality(StartedCtxs)

\* Rayneo_Start has failed and the context of that call is destroyed.
C3_Witness ==
    /\ last_call = "init_start_failed"
    /\ \E c \in CtxIds : ctx_state[c] = "destroyed"

\* C4: over any sequence of StopRayneo calls a thread is joined at most once,
\* a session is stopped at most once, and no SDK call is made with a handle
\* that is null or already stopped or destroyed.
C4_StopRedundantSafe ==
    /\ \A t \in ThreadIds : joins[t] <= 1
    /\ \A r \in sdk_log : r.h # Null /\ r.st \notin {"null", "stopped", "destroyed"}

\* C5: no thread other than the polling thread makes an SDK call on the
\* handle while a polling thread exists.
C5_ChannelOwnedByLoop ==
    \A r \in sdk_log : r.by = "owner" => ~r.polling

\* C6 (first part): Rayneo_Stop is called, and the handle dropped, only after
\* the polling thread has ended.
C6_JoinBeforeStop ==
    /\ \A r \in sdk_log : r.fn = "Rayneo_Stop" => ~r.polling
    /\ rayneo_ctx_ = Null => AliveThreads = {}
    /\ owner_pc = "stop_release" => AliveThreads = {}

\* C6 (second part): the polling thread only polls a started, non-null handle.
C6_PollsLiveHandle ==
    \A r \in sdk_log : r.fn = "Rayneo_PollEvent" => r.h # Null /\ r.st = "started"

\* C6: teardown order: the polling thread has ended before the session is
\* stopped and the handle dropped, the thread never polls a stopped or cleared
\* handle, and once StopRayneo has returned every context that was created has
\* been released by the SDK.
C6_TeardownOrder ==
    /\ C6_JoinBeforeStop
    /\ C6_PollsLiveHandle
    /\ StopDone => \A c \in CtxIds : ctx_state[c] \in {"none", "destroyed"}

\* C7: a thread that dispatched a detach event ends by itself, and while it is
\* finished and not yet joined the running flag is false; a StopRayneo begun
\* afterwards returns, having joined that thread exactly once.
C7_DetachThenStop ==
    /\ [](\A t \in ThreadIds :
            /\ (loop_pc[t] = "done" /\ rayneo_event_thread_ = t)
                  => ~rayneo_event_thread_running_
            /\ joins[t] <= 1
            /\ (StopDone /\ t \in Spawned) => joins[t] = 1)
    /\ \A t \in ThreadIds : (exit_by[t] = "detach") ~> (loop_pc[t] = "done")
    /\ \A t \in ThreadIds :
          (exit_by[t] = "detach" /\ owner_pc = "stop_flag")
              ~> (owner_pc = "idle" /\ joins[t] = 1)

\* StopRayneo has returned after joining a thread that ended on a detach.
C7_Witness ==
    \E t \in ThreadIds :
        /\ exit_by[t] = "detach"
        /\ joins[t] = 1
        /\ StopDone
        /\ rayneo_ctx_ = Null

\* C8: once StopRayneo has cleared the running flag, every polling thread
\* ends and the join returns, whatever Rayneo_PollEvent delivers (time-outs
\* only included).
C8_StopResponsive ==
    /\ \A t \in ThreadIds :
          (owner_pc = "stop_join" /\ Alive(t)) ~> (loop_pc[t] = "done")
    /\ (owner_pc = "stop_join") ~> (owner_pc = "stop_release")

\* The join has returned for a thread that left its loop on the cleared flag.
C8_Witness ==
    \E t \in ThreadIds :
        /\ owner_pc = "stop_release"
        /\ exit_by[t] = "flag"
        /\ joins[t] = 1

\* ---------------------------------------------------------------- running session
\* The state Init leaves behind when Rayneo_Create and Rayneo_Start succeed:
\* context 1 started, thread 1 about to test the running flag, the device built.
RunningSession ==
    /\ rayneo_ctx_ = 1
    /\ rayneo_started_ = TRUE
    /\ rayneo_event_thread_ = 1
    /\ rayneo_event_thread_running_ = TRUE
    /\ owner_pc = "idle"
    /\ loop_pc = [t \in ThreadIds |-> IF t = 1 THEN "check" ELSE "unborn"]
    /\ exit_by = [t \in ThreadIds |-> "none"]
    /\ joins = [t \in ThreadIds |-> 0]
    /\ ctx_state = [c \in CtxIds |-> IF c = 1 THEN "started" ELSE "none"]
    /\ sdk_log = {[fn |-> f, h |-> 1, st |-> "created", by |-> "owner", polling |-> FALSE] :
                      f \in {"Rayneo_SetTargetVidPid", "Rayneo_Start"}}
                 \cup
                 {[fn |-> f, h |-> 1, st |-> "started", by |-> "owner", polling |-> FALSE] :
                      f \in {"Rayneo_EnableImu", "Rayneo_RequestDeviceInfo"}}
    /\ last_call = "init_started"
    /\ DeviceRunning

\* ---------------------------------------------------------------- orientation specification
\* The polling thread receives IMU samples while the frame thread recenters
\* and the pose thread reads the orientation.
ImuSpecInit == RunningSession /\ ImuInit /\ ButtonInit

ImuNext ==
    \/ \E t \in ThreadIds : LoopCheck(t)
    \/ \E t \in ThreadIds : PollImuSample(t)
    \/ \E t \in ThreadIds : ImuLock(t)
    \/ \E t \in ThreadIds : ImuIntegrate(t)
    \/ \E t \in ThreadIds : ImuStore(t)
    \/ \E t \in ThreadIds : ImuUnlock(t)
    \/ RecenterLock
    \/ RecenterBody
    \/ GetImuOrientationLock
    \/ GetImuOrientationBody

ImuSpec == ImuSpecInit /\ [][ImuNext]_vars

\* ---------------------------------------------------------------- notification specification
\* The polling thread posts notifications while the frame thread consumes.
ButtonSpecInit == RunningSession /\ ImuInit /\ ButtonInit

ButtonNext ==
    \/ \E t \in ThreadIds : LoopCheck(t)
    \/ \E t \in ThreadIds : PollNotify(t)
    \/ ConsumeButtonNotifyPending
    \/ ConsumeTriggerClickPending
    \/ ConsumeGripClickPending
    \/ ConsumeAppMenuClickPending

ButtonSpec == ButtonSpecInit /\ [][ButtonNext]_vars

\* ---------------------------------------------------------------- hold specification
\* Activate (hmd_device_driver.cpp:170-200) has created any subset of the
\* click handles; the others stay k_ulInvalidInputComponentHandle.
Activated == my_input_handles_ \in [Buttons -> BOOLEAN]

SimpleButtons == {"system", "trigger", "grip"}
SimpleCodes == {"RAYNEO_NOTIFY_BUTTON", "RAYNEO_NOTIFY_BUTTON_VOLUME_UP",
                "RAYNEO_NOTIFY_BUTTON_VOLUME_DOWN"}
\* A button that has been notified at some point of the run.
Used(b) == pending[b] \/ frames_since[b] # 0

\* The device posts the notification of a simple button; in each run one of
\* the three simple buttons is left alone by the user.
PollNotifySimple(t) ==
    \E code \in SimpleCodes :
        /\ \E idle \in SimpleButtons \ {ButtonOf(code)} : ~Used(idle)
        /\ PollNotifyCode(t, code)

\* The polling thread posts system, trigger and grip notifications while the
\* frame thread runs MyRunFrame.
HoldSpecInit == RunningSession /\ ImuInit /\ NotifyInit /\ FrameInit /\ Activated

HoldNext ==
    \/ \E t \in ThreadIds : LoopCheck(t)
    \/ \E t \in ThreadIds : PollNotifySimple(t)
    \/ MyRunFrame

HoldSpec == HoldSpecInit /\ [][HoldNext]_vars

\* ---------------------------------------------------------------- app-menu specification
PollNotifyAppMenu(t) == PollNotifyCode(t, "RAYNEO_NOTIFY_BUTTON_BRIGHTNESS")

\* The polling thread posts app-menu (brightness) notifications while the
\* frame thread runs MyRunFrame and the clock advances.
AppMenuSpecInit == RunningSession /\ ImuInit /\ NotifyInit /\ FrameInit /\ Activated

AppMenuNext ==
    \/ \E t \in ThreadIds : LoopCheck(t)
    \/ \E t \in ThreadIds : PollNotifyAppMenu(t)
    \/ MyRunFrame
    \/ ClockAdvance

AppMenuSpec == AppMenuSpecInit /\ [][AppMenuNext]_vars

\* ---------------------------------------------------------------- frame specification
\* The app-menu button has been worked since the clock last ran past the
\* double-click limit.
AppMenuUsed ==
    \/ pending["appmenu"]
    \/ brightness_waiting_for_double_
    \/ frames_since["appmenu"] # 0
    \/ click_age # DoubleClickMs

\* In each run the user works either the app-menu button or the simple buttons.
PollNotifyFrameSimple(t) == ~AppMenuUsed /\ PollNotifySimple(t)
PollNotifyFrameAppMenu(t) ==
    /\ \A b \in SimpleButtons : ~Used(b)
    /\ PollNotifyAppMenu(t)

FrameNext ==
    \/ \E t \in ThreadIds : LoopCheck(t)
    \/ \E t \in ThreadIds : PollNotifyFrameSimple(t)
    \/ \E t \in ThreadIds : PollNotifyFrameAppMenu(t)
    \/ MyRunFrame
    \/ ClockAdvance

FrameSpec == AppMenuSpecInit /\ [][FrameNext]_vars

\* ---------------------------------------------------------------- sample specification
\* As ImuSpec, with samples that also carry fast, infinite and NaN angular
\* velocities.
SampleNext ==
    \/ \E t \in ThreadIds : LoopCheck(t)
    \/ \E t \in ThreadIds : PollImuSample(t)
    \/ \E t \in ThreadIds : ImuLock(t)
    \/ \E t \in ThreadIds : ImuIntegrateAny(t)
    \/ \E t \in ThreadIds : ImuStore(t)
    \/ \E t \in ThreadIds : ImuUnlock(t)
    \/ RecenterLock
    \/ RecenterBody
    \/ GetImuOrientationLock
    \/ GetImuOrientationBody

SampleSpec == ImuSpecInit /\ [][SampleNext]_vars

\* ---------------------------------------------------------------- pose specification
\* The polling thread takes samples and sleep/wake notifications while the
\* frame thread recenters and the pose thread runs GetPose.
PoseNext ==
    \/ \E t \in ThreadIds : LoopCheck(t)
    \/ \E t \in ThreadIds : PollImuSample(t)
    \/ \E t \in ThreadIds : ImuLock(t)
    \/ \E t \in ThreadIds : ImuIntegratePose(t)
    \/ \E t \in ThreadIds : ImuStore(t)
    \/ \E t \in ThreadIds : ImuUnlock(t)
    \/ \E t \in ThreadIds : PollNotifySleepWake(t)
    \/ RecenterLock
    \/ RecenterBody
    \/ GetImuOrientationLock
    \/ GetPoseOrientation
    \/ GetPoseReport

PoseSpec == ImuSpecInit /\ [][PoseNext]_vars

\* ---------------------------------------------------------------- thread specification
\* All four threads: the owner stops the session (and waits in join), the
\* polling thread polls, integrates and leaves its loop, the frame thread
\* recenters and the pose thread runs GetPose.
PollerLockedNext ==
    \/ \E t \in ThreadIds : ImuIntegrateTurn(t)
    \/ \E t \in ThreadIds : ImuStore(t)
    \/ \E t \in ThreadIds : ImuUnlock(t)

ThreadsNext ==
    \/ StopRayneo_DisableImu
    \/ StopRayneo_ClearFlag
    \/ StopRayneo_Join
    \/ StopRayneo_Release
    \/ \E t \in ThreadIds : LoopCheck(t)
    \/ \E t \in ThreadIds : PollTimeout(t)
    \/ \E t \in ThreadIds : PollDetached(t)
    \/ \E t \in ThreadIds : LoopExit(t)
    \/ \E t \in ThreadIds : PollImuSample(t)
    \/ \E t \in ThreadIds : ImuLock(t)
    \/ PollerLockedNext
    \/ RecenterLock
    \/ RecenterBody
    \/ GetImuOrientationLock
    \/ GetPoseOrientation
    \/ GetPoseReport

\* A thread that holds imu_mutex_ runs on to the end of its locked section,
\* GetPose runs on once it has the orientation, and the pose thread, which
\* calls GetPose every 5 ms, gets the mutex if it is free again and again.
\* Nothing is assumed of the polling loop outside its locked section, of the
\* owner or of the frame thread.
ThreadsSpec ==
    /\ ImuSpecInit
    /\ [][ThreadsNext]_vars
    /\ WF_vars(PollerLockedNext)
    /\ WF_vars(RecenterBody)
    /\ WF_vars(GetPoseOrientation)
    /\ WF_vars(GetPoseReport)
    /\ SF_vars(GetImuOrientationLock)

\* ---------------------------------------------------------------- concurrency claims
PollerInSection == \E t \in ThreadIds : loop_pc[t] \in ImuSection

\* C9: the orientation fields are touched only by the holder of imu_mutex_:
\* the integration step, Recenter and GetImuOrientation exclude one another,
\* so the anchor and the orientation handed to the pose thread are never a mix
\* of two integration steps (a mix of two distinct orientations is not a unit
\* quaternion), and the orientation is whole whenever the mutex is free.
C9_ImuMutualExclusion ==
    /\ PollerInSection => imu_mutex_ = "poller"
    /\ frame_pc = "recenter" => imu_mutex_ = "frame"
    /\ pose_pc = "get" => imu_mutex_ = "pose"
    /\ Norm2(recenter_q_) = 1
    /\ Norm2(pose_q) = 1
    /\ imu_mutex_ # "poller" => Norm2(imu_q_) = 1

\* The frame thread is inside Recenter while the polling thread waits for the
\* mutex with a sample in hand, after the orientation has already turned.
C9_Witness ==
    /\ frame_pc = "recenter"
    /\ \E t \in ThreadIds : loop_pc[t] = "imu_lock"
    /\ imu_q_ # Identity
    /\ pose_q # Identity

\* C10 as stated: every consume call returns true for exactly one notification
\* (one true per notification posted) and false when none was posted since the
\* previous call.
C10_OncePerNotification ==
    [][\A b \in Buttons :
          Consume(b) => \/ ret'[b] /\ unseen[b] = 1
                        \/ ~ret'[b] /\ unseen[b] = 0]_vars

\* C10 amended: a consume call returns true exactly when at least one
\* notification was posted since the previous consume call of that button
\* (notifications posted between two calls count once), it clears the flag,
\* and the flag is set exactly while a notification is unconsumed.
C10_OncePerBurst ==
    /\ [](\A b \in Buttons : pending[b] = (unseen[b] >= 1))
    /\ [][\A b \in Buttons :
            Consume(b) => /\ ret'[b] = (unseen[b] >= 1)
                          /\ ~pending'[b]]_vars

\* A consume has returned true and a further notification is already posted.
C10_Witness ==
    \E b \in Buttons : ret[b] /\ pending[b] /\ unseen[b] = MaxUnseen

\* ---------------------------------------------------------------- button claims
\* The hold of button b as the host sees it: b has a valid handle and at
\* least one MyRunFrame has run since a hold of b was started.
HoldSeen(b) == my_input_handles_[b] /\ frames_since[b] >= 1

\* C11 as stated: the n-th MyRunFrame call after a notification of a simple
\* button reports it pressed for n <= HoldFrames - 1 and not pressed from
\* n = HoldFrames on.
C11_HoldOneFrameShort ==
    \A b \in SimpleButtons :
        HoldSeen(b) => reported[b].pressed = (frames_since[b] <= HoldFrames - 1)

\* C11 amended: the n-th MyRunFrame call after a notification of a simple
\* button with a valid handle (counting the call that consumes it, and
\* counting anew from a later notification) reports it pressed for
\* n <= HoldFrames and not pressed from n = HoldFrames + 1 on; a button never
\* notified is reported not pressed.
C11_HoldFullLength ==
    \A b \in SimpleButtons :
        /\ HoldSeen(b) => /\ reported[b].sent
                          /\ reported[b].pressed = (frames_since[b] <= HoldFrames)
        /\ frames_since[b] = 0 => ~reported[b].pressed

\* A simple button has been reported pressed on the last frame of its hold.
C11_Witness ==
    \E b \in SimpleButtons :
        /\ HoldSeen(b)
        /\ frames_since[b] = HoldFrames
        /\ reported[b].pressed
        /\ frames_remaining[b] = 0

\* C12: an app-menu click consumed while the first click is still waiting and
\* less than DoubleClickMs old calls Recenter exactly once, closes the wait
\* and cancels the countdown, so that neither click starts a hold: the frame
\* of the first click called no Recenter and started no hold, and the hold
\* counter is only counted down by the frame of the second.
C12_DoubleClickRecenters ==
    /\ [][(MyRunFrame /\ pending["appmenu"] /\ brightness_waiting_for_double_
              /\ click_age < DoubleClickMs) =>
            /\ frame_out'.click = "double"
            /\ frame_out'.recenters = 1
            /\ recenter_q_' = imu_q_
            /\ ~frame_out'.single
            /\ ~brightness_waiting_for_double_'
            /\ brightness_single_click_delay_' = 0
            /\ frames_remaining'["appmenu"] <= frames_remaining["appmenu"]
            /\ frames_since'["appmenu"] # 1]_vars
    /\ [](frame_out.click = "first" => frame_out.recenters = 0 /\ ~frame_out.single)
    /\ [](brightness_waiting_for_double_ => ~frame_out.single)

\* The second click came one clock step after the first and was taken as a
\* double click.
C12_Witness ==
    /\ frame_out.click = "double"
    /\ frame_out.recenters = 1
    /\ click_age = ClockStepMs
    /\ ~brightness_waiting_for_double_

C14_HoldRestarts ==
    /\ [](\A b \in Buttons : frames_remaining[b] \in 0..HoldFrames)
    /\ [][\A b \in SimpleButtons :
            (MyRunFrame /\ pending[b] /\ frames_remaining[b] > 0) =>
                /\ frames_remaining'[b] =
                      IF my_input_handles_[b] THEN HoldFrames - 1 ELSE HoldFrames
                /\ frames_since'[b] = 1]_vars

\* A notification of a simple button is pending in the middle of its hold.
C14_Witness ==
    \E b \in SimpleButtons :
        /\ pending[b]
        /\ my_input_handles_[b]
        /\ frames_remaining[b] > 0
        /\ frames_remaining[b] < HoldFrames - 1
        /\ reported[b].pressed

\* C15: every hold counter is at least zero, and the value last reported to
\* the host for a button is true exactly when its counter was above zero at
\* the call of UpdateBooleanComponent.
C15_PressedIffCounting ==
    \A b \in Buttons :
        /\ frames_remaining[b] >= 0
        /\ reported[b].sent => /\ reported[b].pressed = (reported[b].at > 0)
                               /\ frames_remaining[b] = IF reported[b].at > 0
                                                        THEN reported[b].at - 1 ELSE 0

\* The app-menu button has been reported not pressed after its hold ran out.
C15_Witness ==
    /\ reported["appmenu"].sent
    /\ ~reported["appmenu"].pressed
    /\ frames_since["appmenu"] = HoldFrames + 1
    /\ frames_remaining["appmenu"] = 0

\* The one flag a notification code is specified to set, and the value of the
\* sleep flag after it.
SetsOnly(b) == pending' = [pending EXCEPT ![b] = TRUE] /\ sleeping_' = sleeping_
EffectOf(code) ==
    CASE code = "RAYNEO_NOTIFY_SLEEP" -> sleeping_' = TRUE /\ pending' = pending
      [] code = "RAYNEO_NOTIFY_WAKE" -> sleeping_' = FALSE /\ pending' = pending
      [] code = "RAYNEO_NOTIFY_BUTTON" -> SetsOnly("system")
      [] code = "RAYNEO_NOTIFY_BUTTON_VOLUME_UP" -> SetsOnly("trigger")
      [] code = "RAYNEO_NOTIFY_BUTTON_VOLUME_DOWN" -> SetsOnly("grip")
      [] code = "RAYNEO_NOTIFY_BUTTON_BRIGHTNESS" -> SetsOnly("appmenu")
      [] OTHER -> sleeping_' = sleeping_ /\ pending' = pending

\* C16: the dispatch of a notification has exactly the effect of its code:
\* SLEEP sets the sleep flag, WAKE clears it, BUTTON, VOLUME_UP, VOLUME_DOWN
\* and BRIGHTNESS set the system, trigger, grip and app-menu pending flag and
\* no other flag; IMU_ON, IMU_OFF and an unrecognized code change neither the
\* flags nor the orientation state; no notification touches the session, the
\* orientation or the frame counters.
C16_NotifyDecoding ==
    [][\A t \in ThreadIds : \A code \in NotifyCodes :
          PollNotifyCode(t, code) =>
              /\ EffectOf(code)
              /\ UNCHANGED <<imuVars, frameVars, ret, sessionVars>>]_vars

\* The sleep flag is set and every pending flag has been set by its own code.
C16_Witness ==
    /\ sleeping_
    /\ \A b \in Buttons : pending[b]
    /\ \E t \in ThreadIds : loop_pc[t] = "check"

\* ---------------------------------------------------------------- sample claims
\* The angular velocity and the dt of the sample an ImuIntegrate step has
\* taken, read from the sample it left in evt and the tick it found.
SampleW == AngularVelocity(sample'.gyroRad, sample'.gyroDps)
SampleLater == last_imu_tick_ # 0 /\ sample'.tick > last_imu_tick_
SampleDt == IF SampleLater THEN sample'.tick - last_imu_tick_ ELSE 0

\* C17: a valid sample whose tick equals the last tick, is smaller than it, or
\* that arrives while the last tick is 0 leaves the orientation (and the
\* anchor) unchanged and stores its tick as the last tick: the step goes
\* straight to the end of the locked section, which writes neither.
C17_NoStepTickStored ==
    /\ [][\A t \in ThreadIds :
            (ImuIntegrateAny(t) /\ (sample'.tick <= last_imu_tick_ \/ last_imu_tick_ = 0)) =>
                /\ last_imu_tick_' = sample'.tick
                /\ imu_q_' = imu_q_
                /\ recenter_q_' = recenter_q_
                /\ loop_pc'[t] = "imu_unlock"]_vars
    /\ [][\A t \in ThreadIds :
            ImuUnlock(t) => /\ imu_q_' = imu_q_
                            /\ recenter_q_' = recenter_q_
                            /\ last_imu_tick_' = last_imu_tick_]_vars

\* A turning sample with tick 0 has been taken after the orientation had
\* turned (so after a last tick above 0): nothing was integrated and the last
\* tick is 0 again.
C17_Witness ==
    \E t \in ThreadIds :
        /\ loop_pc[t] = "imu_unlock"
        /\ sample.tick = 0
        /\ sample.gyroRad \in {<<1, 0, 0>>, <<2, 0, 0>>}
        /\ last_imu_tick_ = 0
        /\ imu_q_ \notin {Identity, <<FNaN, FNaN, FNaN, FNaN>>}

\* C18: the anchor is a unit quaternion in every state, and so is the current
\* orientation whenever the polling thread is not in the middle of storing
\* the four components of an integration step.
C18_UnitNorm ==
    /\ Norm2(recenter_q_) = 1
    /\ imu_mutex_ # "poller" => Norm2(imu_q_) = 1

\* The direction of an angular velocity that lies along one body axis.
Sign(c) == IF IsNaN(c) THEN FNaN ELSE IF c > 0 THEN 1 ELSE IF c < 0 THEN -1 ELSE 0
Direction(w) == << Sign(w[1]), Sign(w[2]), Sign(w[3]) >>

\* C19: a step whose angle before the limit, |w| * dt, is above maxStep
\* computes the orientation that a step about the same axis with the angle
\* exactly maxStep (unit angular velocity, dt = 1) computes.
C19_ClampedAsMaxStep ==
    [][\A t \in ThreadIds :
          (ImuIntegrateAny(t) /\ SampleDt > 0
              /\ FGt(FMul(Magnitude(SampleW), SampleDt), MaxStep)) =>
              /\ loop_pc'[t] = "imu_store_w"
              /\ new_q' = NewOrientation(imu_q_, Direction(SampleW), 1)]_vars

\* C20: GetImuOrientation called while the anchor still is the orientation
\* Recenter copied (no integration step has changed it since) returns the
\* identity rotation.
C20_RecenterThenIdentity ==
    [][(GetImuOrientationBody /\ recenter_q_ = imu_q_) => pose_q' = Identity]_vars

\* A sample is malformed when its angular velocity (lines 216-225) is the zero
\* vector or has a component that is not a number.
Malformed(w) == w = Zero3 \/ \E i \in 1..3 : IsNaN(w[i])

\* C21: a valid sample with positive dt whose angular velocity is the zero
\* vector or contains NaN stores its tick and nothing else: the orientation,
\* the anchor and the locals of the step are left as they were, the step goes
\* to the end of the locked section, and from there the polling thread
\* releases the mutex and returns to the test of its loop.
C21_MalformedAbsorbed ==
    /\ [][\A t \in ThreadIds :
            (ImuIntegrateAny(t) /\ SampleDt > 0 /\ Malformed(SampleW)) =>
                /\ last_imu_tick_' = sample'.tick
                /\ imu_q_' = imu_q_
                /\ recenter_q_' = recenter_q_
                /\ new_q' = new_q
                /\ loop_pc'[t] = "imu_unlock"
                /\ exit_by'[t] = "none"]_vars
    /\ [][\A t \in ThreadIds :
            ImuUnlock(t) => /\ loop_pc'[t] = "check"
                            /\ imu_mutex_' = "free"
                            /\ imu_q_' = imu_q_]_vars

\* A sample with a NaN component has been taken with positive dt after the
\* orientation had turned, and the orientation is still that finite one.
C21_Witness ==
    \E t \in ThreadIds :
        /\ loop_pc[t] = "imu_unlock"
        /\ \E i \in 1..3 : IsNaN(sample.gyroRad[i])
        /\ sample.dt > 0
        /\ last_imu_tick_ = sample.tick
        /\ imu_q_ \notin {Identity, <<FNaN, FNaN, FNaN, FNaN>>}
        /\ Norm2(imu_q_) = 1

\* ---------------------------------------------------------------- pose claims
\* A quaternion whose norm is zero or not finite.
Degenerate(q) == (\E i \in 1..4 : ~IsFinite(q[i])) \/ Norm2(q) = 0

\* C22: when GetPose has returned, with the relative quaternion it took from
\* GetImuOrientation, the rotation of the pose is the identity if that
\* quaternion is degenerate and the quaternion scaled to norm one otherwise;
\* in both cases the rotation handed to the host has norm one.
C22_DegenerateToIdentity ==
    (pose_pc = "idle" /\ pose.result = "TrackingResult_Running_OK") =>
        /\ Degenerate(pose_q) => pose.qRotation = Identity
        /\ ~Degenerate(pose_q) =>
              /\ pose.qRotation = Normalize(pose_q)
              /\ \E k \in 1..2 : pose_q = [i \in 1..4 |-> k * pose.qRotation[i]]
        /\ Norm2(pose.qRotation) = 1

\* GetPose has returned the identity for a relative quaternion that is not a
\* number, while the orientation and the anchor are not numbers either.
C22_Witness ==
    /\ pose_pc = "idle"
    /\ pose.result = "TrackingResult_Running_OK"
    /\ IsNaN(pose_q[1])
    /\ IsNaN(imu_q_[1])
    /\ pose.qRotation = Identity

\* C23: a GetPose that finds the sleep flag set returns a pose that is not
\* valid with the tracking result Running_OutOfRange, and one that finds it
\* clear returns a valid pose with the tracking result Running_OK.
C23_ValidityBySleepFlag ==
    [][GetPoseReport =>
          /\ sleeping_ => /\ ~pose'.poseIsValid
                          /\ pose'.result = "TrackingResult_Running_OutOfRange"
          /\ ~sleeping_ => /\ pose'.poseIsValid
                           /\ pose'.result = "TrackingResult_Running_OK"]_vars

\* C24: whoever holds imu_mutex_ is inside its locked section, where there is
\* no second lock, no Rayneo_PollEvent and no join (the owner, who joins,
\* never holds it); GetPose changes neither orientation nor anchor and hands
\* over the relative orientation of the state it finds, which is the one of
\* the last sample when none arrived since; every GetPose that has taken the
\* mutex returns, and GetPose returns again and again whether the polling
\* loop is polling, waiting for the mutex or gone.
C24_PoseNeverBlocked ==
    /\ [](/\ imu_mutex_ \in {"free", "poller", "frame", "pose"}
          /\ imu_mutex_ = "poller" => PollerInSection
          /\ imu_mutex_ = "frame" => frame_pc = "recenter"
          /\ imu_mutex_ = "pose" => pose_pc = "get"
          /\ owner_pc = "stop_join" => imu_mutex_ # "owner")
    /\ [][GetPoseOrientation =>
            /\ pose_q' = QMul(Conj(recenter_q_), imu_q_)
            /\ UNCHANGED <<imu_q_, recenter_q_, last_imu_tick_>>]_vars
    /\ [][GetPoseReport =>
            /\ pose'.qRotation = PoseRotation(pose_q)
            /\ UNCHANGED <<imu_q_, recenter_q_, last_imu_tick_, imu_mutex_>>]_vars
    /\ (pose_pc # "idle") ~> (pose_pc = "idle")
    /\ []<>(pose_pc = "pose_validate")

\* GetPose has returned the turned orientation of the last sample while the
\* polling thread is gone and the owner waits no more.
C24_Witness ==
    /\ \E t \in ThreadIds : loop_pc[t] = "done" /\ exit_by[t] = "detach"
    /\ pose_pc = "idle"
    /\ pose.result = "TrackingResult_Running_OK"
    /\ pose.qRotation = imu_q_
    /\ pose.qRotation # Identity
    /\ imu_mutex_ = "free"

\* ---------------------------------------------------------------- display lookup
\* The largest number of monitor devices the OS enumerates.
MaxEdids == 3

\* The bytes of an EDID block that ParseEdid reads: its length, product
\* <<edid[10], edid[11]>>, serial <<edid[12], .., edid[15]>> and, of the first
\* descriptor dt = &edid[54], timing <<dt[0], dt[1], dt[2], dt[4], dt[5], dt[7]>>.
\* The glasses: product 980, serial 17, 1920x1080.
EdidGlasses ==
    [size |-> 128, product |-> <<212, 3>>, serial |-> <<17, 0, 0, 0>>,
     timing |-> <<1, 0, 128, 113, 56, 64>>]
\* The same product with another serial and no detailed timing.
EdidOtherSerial ==
    [size |-> 128, product |-> <<212, 3>>, serial |-> <<17, 1, 0, 0>>,
     timing |-> <<0, 0, 128, 113, 56, 64>>]
\* Another product with the same low byte and serial, 2560x1440.
EdidDesk ==
    [size |-> 128, product |-> <<212, 4>>, serial |-> <<17, 0, 0, 0>>,
     timing |-> <<1, 0, 0, 160, 160, 80>>]
\* A block cut short of 128 bytes.
EdidShort ==
    [size |-> 64, product |-> <<212, 3>>, serial |-> <<17, 0, 0, 0>>,
     timing |-> <<1, 0, 128, 113, 56, 64>>]
\* The glasses without a detailed timing.
EdidGlassesNoTiming ==
    [size |-> 128, product |-> <<212, 3>>, serial |-> <<17, 0, 0, 0>>,
     timing |-> <<0, 0, 128, 113, 56, 64>>]
Edids == {EdidGlasses, EdidOtherSerial, EdidDesk, EdidShort, EdidGlassesNoTiming}

\* Device instance ids, as their segments between backslashes.
WinIds == {<<"DISPLAY", "TCL03D4", "1">>, <<"DISPLAY", "TCL03D4", "2">>,
           <<"DISPLAY", "DEL0001", "3">>}
X11Ids == {<<"X11:HDMI-1">>, <<"X11:DP-1">>}

\* Position and size of an output on the desktop.
Rects == {[x |-> 0, y |-> 0, width |-> 2560, height |-> 1440],
          [x |-> 2560, y |-> 0, width |-> 1920, height |-> 1080]}

\* What the OS holds for one monitor: the registry entry of lines 92-104, or
\* the connected RandR output with its CRTC of lines 131-160. An output whose
\* EDID property is shorter than 128 bytes is skipped at line 141.
OsDevices(p) ==
    IF p = "x11"
    THEN [device_instance_id : X11Ids, edid : Edids \ {EdidShort}, crtc : Rects]
    ELSE [device_instance_id : WinIds, edid : Edids, crtc : {NoRect}]

\* All sequences over S of length at most n.
SeqsUpTo(S, n) == UNION {[1..k -> S] : k \in 0..n}

\* display_edid_finder.cpp:54-76. The blocks above have edid[15] < 128, which
\* keeps the 32-bit serial number below 2^31.
ParseEdid(instanceId, edid) ==
    LET full == edid.size >= 128
        detailed == full /\ ~(edid.timing[1] = 0 /\ edid.timing[2] = 0)
    IN [device_instance_id |-> instanceId,
        product_code |-> IF full THEN (edid.product[1] + 256 * edid.product[2]) % 65536
                         ELSE 0,
        serial_number |-> IF full
                          THEN edid.serial[1] + 256 * edid.serial[2]
                               + 65536 * edid.serial[3] + 16777216 * edid.serial[4]
                          ELSE 0,
        preferred_width |-> IF detailed
                            THEN edid.timing[3] + (edid.timing[4] \div 16) * 256
                            ELSE 0,
        preferred_height |-> IF detailed
                             THEN edid.timing[5] + (edid.timing[6] \div 16) * 256
                             ELSE 0,
        desktop |-> NoRect]

\* DisplayEdidFinder::EnumerateAll, display_edid_finder.cpp:113-167, of the
\* build p over the devices devs the OS holds.
EnumerateAll(p, devs) ==
    CASE p = "windows" ->
           [i \in 1..Len(devs) |-> ParseEdid(devs[i].device_instance_id, devs[i].edid)]
      [] p = "x11" ->
           [i \in 1..Len(devs) |->
               [ParseEdid(devs[i].device_instance_id, devs[i].edid)
                   EXCEPT !.desktop = devs[i].crtc]]
      [] OTHER -> <<>>

\* std::nullopt as the serial filter.
NoSerial == -1

\* A match that looks at the product code only.
EdidMatchesProduct(d, product, serial) == d.product_code = product

\* Lines 172-173: the test made on one entry.
EdidMatches(d, product, serial) ==
    /\ d.product_code = product
    /\ serial = NoSerial \/ d.serial_number = serial

\* Lines 171-178: the loop over the entries from entry i on.
RECURSIVE FindFrom(_, _, _, _)
FindFrom(all, i, product, serial) ==
    IF i > Len(all) THEN NoEntry
    ELSE IF EdidMatches(all[i], product, serial)
         THEN [found |-> TRUE, info |-> all[i]]
         ELSE FindFrom(all, i + 1, product, serial)

\* DisplayEdidFinder::FindDisplayByEdid, lines 169-179.
FindDisplayByEdid(p, devs, product, serial) ==
    FindFrom(EnumerateAll(p, devs), 1, product, serial)

\* Product codes and serial filters a caller passes.
ProductFilters == {980, 1236}
SerialFilters == {NoSerial, 17, 273}

\* One call of FindDisplayByEdid.
EdidFind ==
    \E product \in ProductFilters, serial \in SerialFilters :
        /\ edid_filter' = [product_code |-> product, serial_number |-> serial]
        /\ edidMatch' = FindDisplayByEdid(platform, os_edids, product, serial)
        /\ UNCHANGED <<sessionVars, loopVars, sdk_log, imuVars, notifyVars,
                       frameVars, pose,
                       provider_pc, init_ret, display_configuration, platform, lifeVars,
                       os_edids, os_monitors, elapsed, pdc>>

\* Any build, and any monitors known to the OS.
EdidInit ==
    /\ SessionInit /\ ImuInit /\ ButtonInit
    /\ LifeInit
    /\ pose = NoPose
    /\ provider_pc = "loaded"
    /\ init_ret = "none"
    /\ display_configuration = NoConfiguration
    /\ platform \in Platforms
    /\ os_edids \in SeqsUpTo(OsDevices(platform), MaxEdids)
    /\ os_monitors = <<>>
    /\ elapsed = 0
    /\ edid_filter = NoFilter
    /\ edidMatch = NoEntry
    /\ pdc = NoCall

EdidSpec == EdidInit /\ [][EdidFind]_vars

\* ---------------------------------------------------------------- desktop placement
\* The largest number of desktop outputs the OS enumerates.
MaxOutputs == 2

\* device_provider.cpp:29, 45: the wait of Init and its sleep, in ms.
InitWaitMs == 2000
InitSleepMs == 200
\* hmd_device_driver.cpp:27, 35: the wait of the constructor and its sleep.
CtorWaitMs == 5000
CtorSleepMs == 250
\* display_edid_finder.cpp:202, 248: the wait of PopulateDesktopCoordinates
\* (Windows build) and its sleep.
PdcWaitMs == 5000
PdcSleepMs == 250
\* device_provider.cpp:33, hmd_device_driver.cpp:30: FindDisplayByEdid(980, 17).
GlassesProduct == 980
GlassesSerial == 17

\* What the OS holds for one desktop output. Windows: a monitor of an adapter
\* of EnumDisplayDevicesA, with the adapter's DISPLAY_DEVICE_ACTIVE flag, the
\* monitor's DeviceID (<<>> when empty), whether EnumDisplaySettingsExA
\* succeeds for the adapter, and the current mode. X11: an active monitor of
\* XRRGetMonitors, which has a geometry only.
WinOutputs ==
    {[active |-> TRUE, device_id |-> <<"MONITOR", "tcl03d4", "0001">>,
      settings_ok |-> TRUE, rect |-> [x |-> 2560, y |-> 0, width |-> 1920, height |-> 1080]],
     [active |-> FALSE, device_id |-> <<"MONITOR", "tcl03d4", "0001">>,
      settings_ok |-> TRUE, rect |-> [x |-> 2560, y |-> 0, width |-> 1920, height |-> 1080]],
     [active |-> TRUE, device_id |-> <<"MONITOR", "tcl03d4", "0001">>,
      settings_ok |-> FALSE, rect |-> [x |-> 2560, y |-> 0, width |-> 1920, height |-> 1080]],
     [active |-> TRUE, device_id |-> <<"MONITOR", "DEL0001", "0002">>,
      settings_ok |-> TRUE, rect |-> [x |-> 0, y |-> 0, width |-> 2560, height |-> 1440]]}
X11Outputs == [active : {TRUE}, device_id : {<<>>}, settings_ok : {TRUE}, rect : Rects]
Outputs(p) == IF p = "x11" THEN X11Outputs ELSE WinOutputs

\* The monitor devices present while the driver starts: nothing, the glasses
\* in 3D mode with or without a detailed timing, or another display.
StartDevices(p) ==
    IF p = "x11"
    THEN [device_instance_id : {<<"X11:HDMI-1">>},
          edid : {EdidGlasses, EdidGlassesNoTiming, EdidDesk},
          crtc : {[x |-> 2560, y |-> 0, width |-> 1920, height |-> 1080]}]
    ELSE [device_instance_id : {<<"DISPLAY", "TCL03D4", "1">>},
          edid : {EdidGlasses, EdidGlassesNoTiming, EdidDesk},
          crtc : {NoRect}]
StartEdids(p) == SeqsUpTo(StartDevices(p), 1)
\* A Windows monitor has a DeviceID of its own: no two outputs of one
\* enumeration carry the same one. X11 monitors carry none.
DistinctOutputs(outs) ==
    \A i, j \in 1..Len(outs) :
        (i < j /\ outs[i].device_id # <<>>) => outs[i].device_id # outs[j].device_id
StartMonitors(p) == {outs \in SeqsUpTo(Outputs(p), MaxOutputs) : DistinctOutputs(outs)}

\* Lines 190-199, 217-226: the text between the first and the second
\* backslash, empty when there are not two of them.
ModelOf(id) == IF Len(id) >= 3 THEN id[2] ELSE ""

\* Lines 229-232: tolower on every character.
ToLower(str) ==
    CASE str = "TCL03D4" -> "tcl03d4"
      [] str = "DEL0001" -> "del0001"
      [] OTHER -> str

\* Lines 208-236: the tests an output passes before its position is taken.
WinMatches(info, o) ==
    /\ o.active
    /\ o.device_id # <<>>
    /\ ToLower(ModelOf(info.device_instance_id)) # ""
    /\ ToLower(ModelOf(info.device_instance_id)) = ToLower(ModelOf(o.device_id))
    /\ o.settings_ok

\* Lines 205-245: one pass over the adapters and their monitors from output i
\* on; the result is the return value and the DisplayEdidInfo as left behind.
RECURSIVE WinScanFrom(_, _, _)
WinScanFrom(info, outs, i) ==
    IF i > Len(outs) THEN [ret |-> FALSE, info |-> info]
    ELSE IF WinMatches(info, outs[i])
         THEN [ret |-> TRUE, info |-> [info EXCEPT !.desktop = outs[i].rect]]
         ELSE WinScanFrom(info, outs, i + 1)

\* Lines 264-272: the first monitor from i on whose size is the preferred
\* one, 0 when there is none or no preferred size is known.
RECURSIVE X11ResolutionFrom(_, _, _)
X11ResolutionFrom(info, mons, i) ==
    IF i > Len(mons) THEN 0
    ELSE IF /\ info.preferred_width # 0 /\ info.preferred_height # 0
            /\ info.preferred_width = mons[i].rect.width
            /\ info.preferred_height = mons[i].rect.height
         THEN i
         ELSE X11ResolutionFrom(info, mons, i + 1)

\* Lines 254-284: the X11 build.
X11Place(info, mons) ==
    LET i == X11ResolutionFrom(info, mons, 1) IN
    IF i # 0 THEN [ret |-> TRUE, info |-> [info EXCEPT !.desktop = mons[i].rect]]
    ELSE IF Len(mons) > 0
         THEN [ret |-> TRUE, info |-> [info EXCEPT !.desktop = mons[1].rect]]
         ELSE [ret |-> FALSE, info |-> info]

\* One attempt of the build p.
PlaceOnce(p, info, outs) ==
    CASE p = "windows" -> WinScanFrom(info, outs, 1)
      [] p = "x11" -> X11Place(info, outs)
      [] OTHER -> [ret |-> FALSE, info |-> info]

\* sleep_for(period) returns after the period, or later.
SleepMs(period) == {period, 2 * period}
\* The clock after d more ms; past the deadline it is not told apart.
After(e, d, wait) == IF e + d >= wait THEN wait ELSE e + d

\* Lines 181-288: the call is entered with info.
PdcEnter(caller, info) ==
    [pc |-> "scan", caller |-> caller, elapsed |-> 0, ret |-> FALSE,
     entry |-> info, info |-> info]

otherVars == <<sessionVars, loopVars, sdk_log, imuVars, notifyVars, frameVars, pose>>

\* PopulateDesktopCoordinates: the test of the deadline with one pass and one
\* sleep (Windows, lines 204-251), or the whole call (lines 254-287). The
\* sleep also brings the deadline of the wait loop of Init nearer.
PopulateDesktopCoordinates ==
    /\ pdc.pc = "scan"
    /\ IF platform = "windows" /\ pdc.elapsed >= PdcWaitMs
       THEN /\ pdc' = [pdc EXCEPT !.pc = "returned", !.ret = FALSE]
            /\ UNCHANGED elapsed
       ELSE LET r == PlaceOnce(platform, pdc.info, os_monitors) IN
            IF r.ret \/ platform # "windows"
            THEN /\ pdc' = [pdc EXCEPT !.pc = "returned", !.ret = r.ret,
                                       !.info = r.info]
                 /\ UNCHANGED elapsed
            ELSE \E d \in SleepMs(PdcSleepMs) :
                     /\ pdc' = [pdc EXCEPT !.elapsed = After(pdc.elapsed, d, PdcWaitMs)]
                     /\ elapsed' = IF pdc.caller = "init"
                                   THEN After(elapsed, d, InitWaitMs)
                                   ELSE elapsed
    /\ UNCHANGED <<otherVars, provider_pc, init_ret, display_configuration, platform, lifeVars,
                   os_edids, os_monitors, edid_filter, edidMatch>>

\* MyDeviceProvider::Init, device_provider.cpp:17-29: InitRayneo, then the
\* deadline of the wait loop is set.
Init_InitRayneo ==
    /\ provider_pc = "loaded"
    /\ InitRayneoCall
    /\ provider_pc' = "init_wait"
    /\ elapsed' = 0
    /\ UNCHANGED <<imuVars, notifyVars, frameVars, pose, init_ret,
                   display_configuration, platform, lifeVars, os_edids, os_monitors,
                   edid_filter, edidMatch, pdc>>

\* Lines 31-45: one turn of the wait loop of Init up to the call of
\* PopulateDesktopCoordinates or the sleep. FindDisplayByEdid returns or throws.
Init_Wait ==
    /\ provider_pc = "init_wait"
    /\ IF elapsed >= InitWaitMs
       THEN /\ provider_pc' = "construct"
            /\ elapsed' = 0
            /\ UNCHANGED <<edid_filter, edidMatch, pdc>>
       ELSE \E threw \in BOOLEAN :
            LET edid == IF threw THEN NoEntry
                        ELSE FindDisplayByEdid(platform, os_edids, GlassesProduct,
                                               GlassesSerial)
            IN /\ edid_filter' = [product_code |-> GlassesProduct,
                                  serial_number |-> GlassesSerial]
               /\ edidMatch' = edid
               /\ IF edid.found
                  THEN /\ pdc' = PdcEnter("init", edid.info)
                       /\ provider_pc' = "init_pdc"
                       /\ UNCHANGED elapsed
                  ELSE /\ \E d \in SleepMs(InitSleepMs) :
                              elapsed' = After(elapsed, d, InitWaitMs)
                       /\ UNCHANGED <<provider_pc, pdc>>
    /\ UNCHANGED <<otherVars, init_ret, display_configuration, platform, lifeVars, os_edids,
                   os_monitors>>

\* Lines 35-45: PopulateDesktopCoordinates has returned: ready, or the sleep.
\* The locals edid and tmp end with the turn of the loop.
Init_Populated ==
    /\ provider_pc = "init_pdc"
    /\ pdc.pc = "returned"
    /\ IF pdc.ret
       THEN /\ provider_pc' = "construct"
            /\ elapsed' = 0
       ELSE /\ provider_pc' = "init_wait"
            /\ \E d \in SleepMs(InitSleepMs) :
                   elapsed' = After(elapsed, d, InitWaitMs)
    /\ edidMatch' = NoEntry
    /\ pdc' = NoCall
    /\ UNCHANGED <<otherVars, init_ret, display_configuration, platform, lifeVars, os_edids,
                   os_monitors, edid_filter>>

\* Line 52 and hmd_device_driver.cpp:18-27: make_unique enters the
\* constructor, whose edidMatch is empty and whose deadline is set.
Ctor_Enter ==
    /\ provider_pc = "construct"
    /\ provider_pc' = "ctor_wait"
    /\ edidMatch' = NoEntry
    /\ elapsed' = 0
    /\ pdc' = NoCall
    /\ UNCHANGED <<otherVars, init_ret, display_configuration, platform, lifeVars, os_edids,
                   os_monitors, edid_filter>>

\* hmd_device_driver.cpp:28-36: one turn of the wait loop of the constructor.
Ctor_Wait ==
    /\ provider_pc = "ctor_wait"
    /\ IF elapsed >= CtorWaitMs
       THEN /\ provider_pc' = "ctor_config"
            /\ elapsed' = 0
            /\ UNCHANGED <<edid_filter, edidMatch>>
       ELSE \E threw \in BOOLEAN :
            /\ edid_filter' = [product_code |-> GlassesProduct,
                               serial_number |-> GlassesSerial]
            /\ edidMatch' = IF threw THEN edidMatch
                            ELSE FindDisplayByEdid(platform, os_edids, GlassesProduct,
                                                   GlassesSerial)
            /\ IF edidMatch'.found
               THEN /\ provider_pc' = "ctor_config"
                    /\ elapsed' = 0
               ELSE /\ \E d \in SleepMs(CtorSleepMs) :
                           elapsed' = After(elapsed, d, CtorWaitMs)
                    /\ UNCHANGED provider_pc
    /\ UNCHANGED <<otherVars, init_ret, display_configuration, platform, lifeVars, os_edids,
                   os_monitors, pdc>>

\* A configuration that takes the origin of the entry whether placed or not.
ConstructorConfigurationUnplaced(match, placed, info) ==
    [window_x |-> IF match.found THEN info.desktop.x ELSE DefaultWinX,
     window_y |-> IF match.found THEN info.desktop.y ELSE DefaultWinY,
     window_width |-> DefaultWidth, window_height |-> DefaultHeight,
     render_width |-> DefaultWidth, render_height |-> DefaultHeight]

\* hmd_device_driver.cpp:63-93: the display configuration from the match, the
\* return value of PopulateDesktopCoordinates and the entry it filled. The
\* coordinates of the model are not negative, and the casts through uint32_t
\* and back to int32_t keep them.
ConstructorConfiguration(match, placed, info) ==
    LET preferred == /\ match.found
                     /\ match.info.preferred_width # 0
                     /\ match.info.preferred_height # 0
        width == IF preferred THEN match.info.preferred_width ELSE DefaultWidth
        height == IF preferred THEN match.info.preferred_height ELSE DefaultHeight
    IN [window_x |-> IF match.found /\ placed THEN info.desktop.x ELSE DefaultWinX,
        window_y |-> IF match.found /\ placed THEN info.desktop.y ELSE DefaultWinY,
        window_width |-> width, window_height |-> height,
        render_width |-> width, render_height |-> height]

\* hmd_device_driver.cpp:63-81: without a match the configuration is built at
\* once (lines 87-104); with one PopulateDesktopCoordinates is called.
Ctor_Config ==
    /\ provider_pc = "ctor_config"
    /\ IF edidMatch.found
       THEN /\ pdc' = PdcEnter("ctor", edidMatch.info)
            /\ provider_pc' = "ctor_pdc"
            /\ UNCHANGED display_configuration
       ELSE /\ display_configuration' = ConstructorConfiguration(edidMatch, FALSE, NoInfo)
            /\ provider_pc' = "register"
            /\ UNCHANGED pdc
    /\ UNCHANGED <<otherVars, init_ret, platform, lifeVars, os_edids, os_monitors, elapsed,
                   edid_filter, edidMatch>>

\* hmd_device_driver.cpp:81-104: PopulateDesktopCoordinates has returned.
Ctor_Populated ==
    /\ provider_pc = "ctor_pdc"
    /\ pdc.pc = "returned"
    /\ display_configuration' = ConstructorConfiguration(edidMatch, pdc.ret, pdc.info)
    /\ provider_pc' = "register"
    /\ UNCHANGED <<otherVars, init_ret, platform, lifeVars, os_edids, os_monitors, elapsed,
                   edid_filter, edidMatch, pdc>>

\* device_provider.cpp:55-61: TrackedDeviceAdded, as the host decides.
Init_TrackedDeviceAdded ==
    /\ provider_pc = "register"
    /\ \E added \in BOOLEAN :
          /\ init_ret' = IF added THEN "VRInitError_None" ELSE "VRInitError_Driver_Unknown"
          /\ provider_pc' = IF added THEN "running" ELSE "failed"
    /\ UNCHANGED <<otherVars, display_configuration, platform, lifeVars, os_edids, os_monitors,
                   elapsed, edid_filter, edidMatch, pdc>>

\* The OS while Init runs: a monitor device appears, changes or disappears,
\* or the last desktop output disappears or one more appears.
OsChange ==
    /\ provider_pc \notin {"running", "failed"}
    /\ \/ /\ os_edids' \in StartEdids(platform) \ {os_edids}
          /\ UNCHANGED os_monitors
       \/ /\ os_monitors # <<>>
          /\ os_monitors' = SubSeq(os_monitors, 1, Len(os_monitors) - 1)
          /\ UNCHANGED os_edids
       \/ /\ Len(os_monitors) < MaxOutputs
          /\ \E o \in Outputs(platform) :
                /\ DistinctOutputs(Append(os_monitors, o))
                /\ os_monitors' = Append(os_monitors, o)
          /\ UNCHANGED os_edids
    /\ UNCHANGED <<otherVars, provider_pc, init_ret, display_configuration, platform, lifeVars,
                   elapsed, edid_filter, edidMatch, pdc>>

ProviderNext ==
    \/ Init_InitRayneo
    \/ Init_Wait
    \/ Init_Populated
    \/ Ctor_Enter
    \/ Ctor_Wait
    \/ Ctor_Config
    \/ Ctor_Populated
    \/ Init_TrackedDeviceAdded
    \/ PopulateDesktopCoordinates

DisplayNext == ProviderNext \/ OsChange

\* The driver is loaded on any build, with any monitors known to the OS.
DisplayInit ==
    /\ SessionInit /\ ImuInit /\ ButtonInit
    /\ LifeInit
    /\ pose = NoPose
    /\ provider_pc = "loaded"
    /\ init_ret = "none"
    /\ display_configuration = NoConfiguration
    /\ platform \in Platforms
    /\ os_edids \in StartEdids(platform)
    /\ os_monitors \in StartMonitors(platform)
    /\ elapsed = 0
    /\ edid_filter = NoFilter
    /\ edidMatch = NoEntry
    /\ pdc = NoCall

\* Init runs to its end when the thread that called it is scheduled.
DisplaySpec == DisplayInit /\ [][DisplayNext]_vars /\ WF_vars(ProviderNext)

\* ---------------------------------------------------------------- bring-up specification
\* The driver is loaded while no monitor device of the glasses is present:
\* Init opens the session or fails to, waits for the display in vain, builds
\* the device and adds it. The polling thread, when there is one, takes
\* samples and sleep/wake notifications; once the device is added the pose
\* thread runs GetPose and the frame thread may recenter.
DevicePoseLock == provider_pc = "running" /\ GetImuOrientationLock
DevicePoseOrientation == provider_pc = "running" /\ GetPoseOrientation
DevicePoseReport == provider_pc = "running" /\ GetPoseReport
DeviceRecenterLock == provider_pc = "running" /\ RecenterLock
DeviceRecenterBody == provider_pc = "running" /\ RecenterBody

BringUpNext ==
    \/ Init_InitRayneo
    \/ Init_Wait
    \/ Ctor_Enter
    \/ Ctor_Wait
    \/ Ctor_Config
    \/ Init_TrackedDeviceAdded
    \/ \E t \in ThreadIds : LoopCheck(t)
    \/ \E t \in ThreadIds : PollImuSample(t)
    \/ \E t \in ThreadIds : ImuLock(t)
    \/ \E t \in ThreadIds : ImuIntegrateTurn(t)
    \/ \E t \in ThreadIds : ImuStore(t)
    \/ \E t \in ThreadIds : ImuUnlock(t)
    \/ \E t \in ThreadIds : PollNotifySleepWake(t)
    \/ DevicePoseLock
    \/ DevicePoseOrientation
    \/ DevicePoseReport
    \/ DeviceRecenterLock
    \/ DeviceRecenterBody

BringUpInit ==
    /\ SessionInit /\ ImuInit /\ ButtonInit
    /\ LifeInit
    /\ pose = NoPose
    /\ provider_pc = "loaded"
    /\ init_ret = "none"
    /\ display_configuration = NoConfiguration
    /\ platform \in Platforms
    /\ os_edids = <<>>
    /\ os_monitors = <<>>
    /\ elapsed = 0
    /\ edid_filter = NoFilter
    /\ edidMatch = NoEntry
    /\ pdc = NoCall

BringUpSpec == BringUpInit /\ [][BringUpNext]_vars

\* ---------------------------------------------------------------- display claims
\* The enumerated entries that pass the filter of the last call: product code
\* equal, and serial number equal when a serial was given.
EdidHits ==
    LET all == EnumerateAll(platform, os_edids) IN
    {i \in 1..Len(all) :
        /\ all[i].product_code = edid_filter.product_code
        /\ edid_filter.serial_number # NoSerial =>
              all[i].serial_number = edid_filter.serial_number}

\* C25: FindDisplayByEdid returns the first enumerated entry whose product code
\* equals the filter and, when a serial filter is given, whose serial number
\* equals it too; it returns nothing exactly when no enumerated entry matches.
C25_FirstMatch ==
    edid_filter # NoFilter =>
        /\ edidMatch.found <=> EdidHits # {}
        /\ edidMatch.found =>
              \E i \in EdidHits :
                  /\ \A j \in EdidHits : i <= j
                  /\ edidMatch.info = EnumerateAll(platform, os_edids)[i]

\* A call with a serial filter has passed over an entry of the product with
\* another serial and returned the second of three entries, the first of two
\* that match.
C25_Witness ==
    /\ edid_filter.product_code = 980
    /\ edid_filter.serial_number = 17
    /\ Cardinality(EdidHits) >= 2
    /\ 1 \notin EdidHits
    /\ edidMatch.found
    /\ edidMatch.info = EnumerateAll(platform, os_edids)[2]

\* C26: a call of PopulateDesktopCoordinates that returns success has filled
\* the desktop fields with the position and size of an enumerated output and
\* changed nothing else; one that returns failure does so only when its retry
\* window is used up, and leaves the entry as it was passed in.
C26_RetryWithinBudget ==
    [][(PopulateDesktopCoordinates /\ pdc'.pc = "returned") =>
          /\ pdc'.ret =>
                \E i \in 1..Len(os_monitors) :
                    pdc'.info = [pdc.entry EXCEPT !.desktop = os_monitors[i].rect]
          /\ ~pdc'.ret =>
                /\ pdc.elapsed >= PdcWaitMs
                /\ pdc'.info = pdc.entry]_vars

\* The outputs the build enumerates, by their place in the enumeration: the
\* active ones, and none on a build without an enumeration.
EnumeratedOutputs ==
    IF platform = "other" THEN {}
    ELSE {i \in 1..Len(os_monitors) : os_monitors[i].active}

\* The output the stated priority picks for the entry info, 0 when there is
\* none: the first whose per-output record carries the model of the identity,
\* else the first whose current resolution is the preferred one, else the
\* first enumerated.
PriorityChoice(info) ==
    LET First(S) == CHOOSE i \in S : \A j \in S : i <= j
        byModel == {i \in EnumeratedOutputs :
                       /\ os_monitors[i].device_id # <<>>
                       /\ ModelOf(info.device_instance_id) # ""
                       /\ ToLower(ModelOf(info.device_instance_id))
                            = ToLower(ModelOf(os_monitors[i].device_id))}
        byResolution == {i \in EnumeratedOutputs :
                            /\ info.preferred_width # 0
                            /\ info.preferred_height # 0
                            /\ os_monitors[i].rect.width = info.preferred_width
                            /\ os_monitors[i].rect.height = info.preferred_height}
    IN IF byModel # {} THEN First(byModel)
       ELSE IF byResolution # {} THEN First(byResolution)
       ELSE IF EnumeratedOutputs # {} THEN First(EnumeratedOutputs)
       ELSE 0

\* C27: a call of PopulateDesktopCoordinates returns failure only when no
\* output is enumerated, and otherwise returns the position and size of the
\* output the priority picks: model match, then resolution, then the first.
C27_PlacementPriority ==
    [][(PopulateDesktopCoordinates /\ pdc'.pc = "returned") =>
          IF PriorityChoice(pdc.entry) = 0
          THEN ~pdc'.ret
          ELSE /\ pdc'.ret
               /\ pdc'.info.desktop = os_monitors[PriorityChoice(pdc.entry)].rect]_vars

\* C28: Init reaches the registration of the device whatever the lookups
\* gave, and returns only after it; the device then has a display
\* configuration, which is the default one when the constructor found no
\* identity, has the default origin when the identity was found and not
\* placed, and has the origin of the placement otherwise.
C28_CallSitesTolerant ==
    /\ [](provider_pc \in {"register", "running", "failed"} =>
            /\ ~edidMatch.found => display_configuration = DefaultConfiguration
            /\ (edidMatch.found /\ ~pdc.ret) =>
                  /\ display_configuration.window_x = DefaultWinX
                  /\ display_configuration.window_y = DefaultWinY
            /\ (edidMatch.found /\ pdc.ret) =>
                  /\ display_configuration.window_x = pdc.info.desktop.x
                  /\ display_configuration.window_y = pdc.info.desktop.y
            /\ edidMatch.found =>
                  /\ display_configuration.window_width
                        \in {DefaultWidth, edidMatch.info.preferred_width} \ {0}
                  /\ display_configuration.window_height
                        \in {DefaultHeight, edidMatch.info.preferred_height} \ {0})
    /\ [](init_ret # "none" => provider_pc \in {"running", "failed"})
    /\ <>(provider_pc \in {"running", "failed"})

\* Init has returned with the device added; the constructor had found the
\* identity, the placement was not resolved, and the window has the default
\* origin and the preferred size of the identity.
C28_Witness ==
    /\ provider_pc = "running"
    /\ init_ret = "VRInitError_None"
    /\ edidMatch.found
    /\ pdc.pc = "returned"
    /\ pdc.caller = "ctor"
    /\ ~pdc.ret
    /\ display_configuration.window_x = DefaultWinX
    /\ display_configuration.window_y = DefaultWinY
    /\ display_configuration.window_width = edidMatch.info.preferred_width

\* ---------------------------------------------------------------- bring-up claims
\* InitRayneo has returned after a failure of Rayneo_Create or Rayneo_Start.
SessionFailed == last_call \in {"init_create_failed", "init_start_failed"}

\* C29: after a failed Rayneo_Create or Rayneo_Start there is no session and
\* no polling thread, the orientation, the anchor and the sleep flag keep
\* their initial values, Init goes on to build the device and returns the
\* error of TrackedDeviceAdded only, and every pose GetPose has returned has
\* the identity rotation and is valid.
C29_DegradedMode ==
    /\ [](SessionFailed =>
            /\ rayneo_ctx_ = Null
            /\ ~rayneo_started_
            /\ rayneo_event_thread_ = NoThread
            /\ ~rayneo_event_thread_running_
            /\ \A t \in ThreadIds : loop_pc[t] = "unborn"
            /\ imu_q_ = Identity
            /\ recenter_q_ = Identity
            /\ ~sleeping_
            /\ provider_pc = "running" => init_ret = "VRInitError_None"
            /\ pose # NoPose =>
                  /\ pose.qRotation = Identity
                  /\ pose.poseIsValid)
    /\ [][(SessionFailed /\ Init_TrackedDeviceAdded) =>
             /\ display_configuration = DefaultConfiguration
             /\ init_ret' \in {"VRInitError_None", "VRInitError_Driver_Unknown"}]_vars
    /\ [][(SessionFailed /\ DevicePoseReport) =>
             /\ pose'.qRotation = Identity
             /\ pose'.poseIsValid]_vars

\* Rayneo_Start had failed, Init returned without error, the frame thread has
\* recentered and GetPose has returned a valid identity pose.
C29_Witness ==
    /\ last_call = "init_start_failed"
    /\ provider_pc = "running"
    /\ init_ret = "VRInitError_None"
    /\ pose_pc = "idle"
    /\ pose.result = "TrackingResult_Running_OK"
    /\ pose.qRotation = Identity
    /\ pose.poseIsValid
    /\ \A t \in ThreadIds : loop_pc[t] = "unborn"

\* C30: an InitRayneo in which Rayneo_EnableImu fails leaves the session
\* started on the new context, has requested the device info on it, and has
\* started a polling thread that runs, as an InitRayneo without the failure
\* does.
C30_EnableImuNonFatal ==
    [][(InitRayneo /\ last_call' \in {"init_started", "init_started_no_imu"}) =>
          /\ rayneo_ctx_' \in CtxIds
          /\ rayneo_started_'
          /\ ctx_state[rayneo_ctx_'] = "none"
          /\ ctx_state'[rayneo_ctx_'] = "started"
          /\ \E r \in sdk_log' :
                /\ r.fn = "Rayneo_RequestDeviceInfo"
                /\ r.h = rayneo_ctx_'
                /\ r.st = "started"
          /\ rayneo_event_thread_running_'
          /\ rayneo_event_thread_' \in ThreadIds
          /\ loop_pc[rayneo_event_thread_'] = "unborn"
          /\ loop_pc'[rayneo_event_thread_'] = "check"
          /\ owner_pc' = "idle"]_vars

\* Rayneo_EnableImu has failed and the polling thread of the session polls.
C30_Witness ==
    /\ last_call = "init_started_no_imu"
    /\ rayneo_started_
    /\ rayneo_ctx_ \in CtxIds
    /\ ctx_state[rayneo_ctx_] = "started"
    /\ rayneo_event_thread_running_
    /\ rayneo_event_thread_ \in ThreadIds
    /\ loop_pc[rayneo_event_thread_] = "poll"

\* ---------------------------------------------------------------- event specification
\* The polling thread dispatches every kind of event of Rayneo_PollEvent
\* (lines 195-302) while the frame thread recenters: detach, attach, device
\* info, log, IMU samples and notifications of every code.
EventNext ==
    \/ \E t \in ThreadIds : LoopCheck(t)
    \/ \E t \in ThreadIds : PollTimeout(t)
    \/ \E t \in ThreadIds : PollDiagnostic(t)
    \/ \E t \in ThreadIds : PollDetached(t)
    \/ \E t \in ThreadIds : LoopExit(t)
    \/ \E t \in ThreadIds : PollImuSample(t)
    \/ \E t \in ThreadIds : ImuLock(t)
    \/ \E t \in ThreadIds : ImuIntegrateTurn(t)
    \/ \E t \in ThreadIds : ImuStore(t)
    \/ \E t \in ThreadIds : ImuUnlock(t)
    \/ \E t \in ThreadIds : PollNotify(t)
    \/ RecenterLock
    \/ RecenterBody

EventSpec == ImuSpecInit /\ [][EventNext]_vars

\* ---------------------------------------------------------------- event claims
\* What the telemetry events act on: orientation, anchor, lastTick, the
\* sleep flag and the four pending flags.
SharedState == <<imu_q_, recenter_q_, last_imu_tick_, sleeping_, pending>>

\* C31: an attach, device-info or log event leaves the shared state, the
\* running flag and the session as they are and the loop goes back to its
\* test; a detach event leaves the shared state as it is and the loop goes
\* to its exit, from where the thread only returns, which changes none of
\* the shared state either.
C31_DiagnosticsInert ==
    /\ [][\A t \in ThreadIds : PollDiagnostic(t) =>
            /\ UNCHANGED SharedState
            /\ UNCHANGED <<rayneo_event_thread_running_, rayneo_ctx_, rayneo_started_,
                           exit_by, imu_mutex_>>
            /\ loop_pc'[t] = "check"]_vars
    /\ [][\A t \in ThreadIds : PollDetached(t) =>
            /\ UNCHANGED SharedState
            /\ loop_pc'[t] = "exit"
            /\ exit_by'[t] = "detach"]_vars
    /\ [][\A t \in ThreadIds : loop_pc[t] = "exit" =>
            /\ loop_pc'[t] \in {"exit", "done"}
            /\ loop_pc'[t] = "done" => UNCHANGED SharedState]_vars
    /\ [](\A t \in ThreadIds : exit_by[t] = "detach" => loop_pc[t] \in {"exit", "done"})

\* The polling thread has returned on a detach event and the orientation,
\* the anchor, lastTick, the sleep flag and the pending flags it had set
\* before are all still there.
C31_Witness ==
    /\ \E t \in ThreadIds : loop_pc[t] = "done" /\ exit_by[t] = "detach"
    /\ imu_q_ # Identity
    /\ recenter_q_ # Identity
    /\ recenter_q_ # imu_q_
    /\ last_imu_tick_ # 0
    /\ sleeping_
    /\ \A b \in Buttons : pending[b]

\* ---------------------------------------------------------------- click outcome claims
\* 1 when the first click of a possible pair is open: it has been neither
\* paired nor turned into a single click yet.
OpenClicks(waiting) == IF waiting THEN 1 ELSE 0

\* C32: across every MyRunFrame the click it has consumed is accounted for:
\* a Recenter closes two clicks (the open one and the consumed one), a
\* deferred single click closes the open one, and a click that does neither
\* is the new open one; Recenter and the single click never come together.
C32_EveryClickOneOutcome ==
    [][MyRunFrame =>
          /\ ~(frame_out'.recenters = 1 /\ frame_out'.single)
          /\ (IF ret'["appmenu"] THEN 1 ELSE 0) =
                 2 * frame_out'.recenters
                 + (IF frame_out'.single THEN 1 ELSE 0)
                 + OpenClicks(brightness_waiting_for_double_')
                 - OpenClicks(brightness_waiting_for_double_)]_vars

\* C33: between two MyRunFrame calls the first click of a possible pair is
\* open exactly while the countdown of the single click runs, and the
\* countdown is within 0..SingleClickDelay.
C33_ArbitrationConsistent ==
    /\ brightness_waiting_for_double_ <=> brightness_single_click_delay_ > 0
    /\ brightness_single_click_delay_ \in 0..SingleClickDelay

\* The countdown of an open click is in its last frame.
C33_Witness ==
    /\ brightness_waiting_for_double_
    /\ brightness_single_click_delay_ = 1
    /\ frame_out.click = "none"
    /\ ret["appmenu"] = FALSE

\* ---------------------------------------------------------------- delivery specification
\* The notification specification with a frame thread that keeps calling
\* MyRunFrame, and with it each of the four consumes.
ButtonLiveSpec ==
    /\ ButtonSpecInit
    /\ [][ButtonNext]_vars
    /\ \A b \in Buttons : WF_vars(Consume(b))

\* C34: a consume returns true only when a notification of its button was
\* posted since the consume before it, which it uses up, so that there are
\* never more true results than notifications; it returns true whenever one
\* or several were posted since, once for all of them; and a posted
\* notification is followed by a consume that reports it.
C34_LosslessUpToCoalescing ==
    /\ [][\A b \in Buttons :
            Consume(b) => /\ ret'[b] => unseen[b] >= 1
                          /\ unseen[b] >= 1 => ret'[b]
                          /\ unseen'[b] = 0
                          /\ \A c \in Buttons \ {b} :
                                ret'[c] = ret[c] /\ unseen'[c] = unseen[c]]_vars
    /\ \A b \in Buttons : (unseen[b] >= 1) ~> (unseen[b] = 0 /\ ret[b])

\* One button has been reported with nothing outstanding while a burst of
\* notifications of another button waits for its consume.
C34_Witness ==
    \E b, c \in Buttons :
        /\ b # c
        /\ ret[b] /\ unseen[b] = 0 /\ ~pending[b]
        /\ ~ret[c] /\ unseen[c] = MaxUnseen /\ pending[c]

\* ---------------------------------------------------------------- detach specification
\* The session specification with a polling thread that also dispatches
\* telemetry: IMU samples, sleep and wake, and app-menu clicks.
TelemetryNext ==
    \/ \E t \in ThreadIds : PollImuSample(t)
    \/ \E t \in ThreadIds : ImuLock(t)
    \/ \E t \in ThreadIds : ImuIntegrateTurn(t)
    \/ \E t \in ThreadIds : ImuStore(t)
    \/ \E t \in ThreadIds : ImuUnlock(t)
    \/ \E t \in ThreadIds : PollNotifySleepWake(t)
    \/ \E t \in ThreadIds : PollNotifyAppMenu(t)

DetachNext == OwnerNext \/ LoopNext \/ TelemetryNext

DetachSpec == Init /\ [][DetachNext]_vars

\* The polling thread of the session has returned on a detach event and
\* StopRayneo has not released the session since.
DetachedSession ==
    /\ rayneo_ctx_ # Null
    /\ rayneo_event_thread_ \in ThreadIds
    /\ loop_pc[rayneo_event_thread_] = "done"
    /\ exit_by[rayneo_event_thread_] = "detach"

\* What a telemetry event writes.
Telemetry == <<imu_q_, last_imu_tick_, sleeping_, pending>>

RelativeTo(r, q) == QMul(Conj(r), q)

\* C36: Recenter leaves the current orientation and lastTick as they are and
\* makes the relative orientation the identity (the empty product), whatever
\* the orientation was; an integration step advances the relative
\* orientation by its own rotation; and GetImuOrientation returns the
\* relative orientation.
C36_RelativeSinceRecenter ==
    /\ [][RecenterBody =>
            /\ UNCHANGED <<imu_q_, last_imu_tick_>>
            /\ RelativeTo(recenter_q_', imu_q_') = Identity]_vars
    /\ [][\A t \in ThreadIds :
            (loop_pc[t] = "imu_integrate" /\ loop_pc'[t] = "imu_store_w") =>
                RelativeTo(recenter_q_, new_q') =
                    NewOrientation(RelativeTo(recenter_q_, imu_q_),
                                   AngularVelocity(sample'.gyroRad, sample'.gyroDps),
                                   sample'.dt)]_vars
    /\ [][GetImuOrientationBody => pose_q' = RelativeTo(recenter_q_, imu_q_)]_vars

\* ---------------------------------------------------------------- sample validity claims
\* C37: a sample that is not flagged valid goes back to the loop test with
\* orientation, anchor and lastTick as they were; a valid sample stores its
\* tick in lastTick, tick 0 included; and a valid sample that finds lastTick
\* at 0 has dt = 0 and is not integrated, whatever its tick and its angular
\* velocity.
C37_InvalidInertValidStoresTick ==
    /\ [][\A t \in ThreadIds :
            (loop_pc[t] = "poll" /\ PollImuSample(t)) =>
                /\ UNCHANGED <<imu_q_, recenter_q_, last_imu_tick_, new_q, imu_mutex_>>
                /\ loop_pc'[t] \in {"check", "imu_lock"}]_vars
    /\ [][\A t \in ThreadIds :
            (loop_pc[t] = "imu_integrate" /\ loop_pc'[t] # "imu_integrate") =>
                /\ last_imu_tick_' = sample'.tick
                /\ last_imu_tick_ = 0 =>
                      /\ sample'.dt = 0
                      /\ loop_pc'[t] = "imu_unlock"
                      /\ UNCHANGED <<imu_q_, new_q>>]_vars
    /\ [][\A t \in ThreadIds :
            loop_pc[t] = "imu_unlock" => UNCHANGED <<imu_q_, recenter_q_, last_imu_tick_>>]_vars

\* After steps were integrated, a valid sample with tick 0 has put lastTick
\* back to unset.
C37_Witness ==
    /\ \E t \in ThreadIds : loop_pc[t] = "imu_unlock"
    /\ sample.tick = 0
    /\ sample.gyroRad # Zero3
    /\ last_imu_tick_ = 0
    /\ imu_q_ # Identity

\* ---------------------------------------------------------------- activation
\* What Activate, Deactivate and the pose thread leave alone.
providerVars == <<sessionVars, loopVars, sdk_log, imuVars, notifyVars, pose,
                  provider_pc, init_ret, display_configuration, platform,
                  os_edids, os_monitors, elapsed, edid_filter, edidMatch, pdc>>
clickVars == <<frames_remaining, brightness_waiting_for_double_,
               brightness_single_click_delay_, click_age, reported, frames_since,
               frame_out>>

\* A pose thread exists from its start until MyPoseUpdateThread has returned.
PoseAlive(t) == pthread_pc[t] \notin {"unborn", "done"}
PoseThreadsAlive == {t \in PoseThreadIds : PoseAlive(t)}
FreshPoseThread == CHOOSE t \in PoseThreadIds : pthread_pc[t] = "unborn" /\
                       \A u \in PoseThreadIds : pthread_pc[u] = "unborn" => t <= u

\* Activate, hmd_device_driver.cpp:111-217: device_index_ and is_active_ are
\* set, each click component is created or not, and line 211 constructs the
\* pose thread and move-assigns it to my_pose_update_thread_. The new thread
\* runs from its construction on; assigning to a std::thread that is still
\* joinable calls std::terminate, and the process ends there ("terminated").
Activate ==
    /\ hmd_pc = "idle"
    /\ \E t \in PoseThreadIds : pthread_pc[t] = "unborn"
    /\ device_index_' = 0
    /\ is_active_' = TRUE
    /\ my_input_handles_' \in [Buttons -> BOOLEAN]
    /\ pthread_pc' = [pthread_pc EXCEPT ![FreshPoseThread] = "test"]
    /\ IF my_pose_update_thread_ # NoThread
       THEN /\ hmd_pc' = "terminated"
            /\ UNCHANGED <<my_pose_update_thread_, hmd_last>>
       ELSE /\ my_pose_update_thread_' = FreshPoseThread
            /\ hmd_last' = "activate"
            /\ UNCHANGED hmd_pc
    /\ UNCHANGED <<providerVars, clickVars, pthread_joins>>

\* MyPoseUpdateThread, line 310: while (is_active_).
PoseThreadTest(t) ==
    /\ hmd_pc # "terminated"
    /\ pthread_pc[t] = "test"
    /\ pthread_pc' = [pthread_pc EXCEPT ![t] = IF is_active_ THEN "update" ELSE "done"]
    /\ UNCHANGED <<providerVars, frameVars, is_active_, device_index_,
                   my_pose_update_thread_, pthread_joins, hmd_pc, hmd_last>>

\* Lines 313-317: TrackedDevicePoseUpdated with the pose of GetPose, then
\* the sleep of 5 ms.
PoseThreadUpdate(t) ==
    /\ hmd_pc # "terminated"
    /\ pthread_pc[t] = "update"
    /\ pthread_pc' = [pthread_pc EXCEPT ![t] = "test"]
    /\ UNCHANGED <<providerVars, frameVars, is_active_, device_index_,
                   my_pose_update_thread_, pthread_joins, hmd_pc, hmd_last>>

\* Deactivate, lines 341-349: is_active_.exchange(false); with the old value
\* false the index is unassigned and the call returns.
DeactivateExchange ==
    /\ hmd_pc = "idle"
    /\ is_active_' = FALSE
    /\ IF is_active_
       THEN /\ hmd_pc' = "deactivate_join"
            /\ UNCHANGED <<device_index_, hmd_last>>
       ELSE /\ device_index_' = "k_unTrackedDeviceIndexInvalid"
            /\ hmd_last' = "deactivate"
            /\ UNCHANGED hmd_pc
    /\ UNCHANGED <<providerVars, frameVars, my_pose_update_thread_, pthread_pc,
                   pthread_joins>>

\* Lines 343-349: join() returns once the pose thread has returned; then
\* the index is unassigned.
DeactivateJoin ==
    /\ hmd_pc = "deactivate_join"
    /\ my_pose_update_thread_ # NoThread
    /\ pthread_pc[my_pose_update_thread_] = "done"
    /\ pthread_joins' = [pthread_joins EXCEPT ![my_pose_update_thread_] = @ + 1]
    /\ my_pose_update_thread_' = NoThread
    /\ device_index_' = "k_unTrackedDeviceIndexInvalid"
    /\ hmd_pc' = "idle"
    /\ hmd_last' = "deactivate"
    /\ UNCHANGED <<providerVars, frameVars, is_active_, pthread_pc>>

\* ---------------------------------------------------------------- activation specification
\* The host calls Activate and Deactivate in any order on the registered
\* device, one call after the other, while the pose threads run.
LifeNext ==
    \/ Activate
    \/ DeactivateExchange
    \/ DeactivateJoin
    \/ \E t \in PoseThreadIds : PoseThreadTest(t)
    \/ \E t \in PoseThreadIds : PoseThreadUpdate(t)

LifeInitial == SessionInit /\ ImuInit /\ ButtonInit /\ DeviceRegistered /\ LifeInit

LifeSpec == LifeInitial /\ [][LifeNext]_vars

\* ---------------------------------------------------------------- activation claims
\* Deactivate has returned and Activate has not been called since.
Deactivated == hmd_pc = "idle" /\ hmd_last = "deactivate"

\* C38: at most one pose thread exists; a pose thread is joined at most
\* once, and only one that was started; a Deactivate that finds is_active_
\* false returns without a join; and once Deactivate has returned no pose
\* thread exists and no pose update is sent.
C38_PoseThreadLifecycle ==
    /\ [](Cardinality(PoseThreadsAlive) <= 1)
    /\ [](\A t \in PoseThreadIds :
            /\ pthread_joins[t] <= 1
            /\ pthread_joins[t] = 1 => pthread_pc[t] = "done")
    /\ [][(DeactivateExchange /\ ~is_active_) =>
            /\ UNCHANGED <<pthread_joins, my_pose_update_thread_>>
            /\ hmd_pc' = "idle"]_vars
    /\ [](Deactivated => PoseThreadsAlive = {})
    /\ [][\A t \in PoseThreadIds : PoseThreadUpdate(t) => ~Deactivated]_vars

====
